---------------------------- MODULE Spec2Model ----------------------------
(* Region & Swipe Designer (src/Zom-Mation.py): the canvas widget, the      *)
(* region model, the action sequence with its undo stack, and the script    *)
(* preview, as a state machine with one action per event handler.           *)
(*                                                                          *)
(* Conventions.  Optional[...] values are sequences of length 0 (None) or   *)
(* more: a QPoint is <<x, y>>, None is <<>>, an Optional[RegionRect] is     *)
(* <<>> or <<rect>>.  Python dicts (actions, profile data) are records      *)
(* whose DOMAIN is the set of keys present.  Floats are exact rationals:    *)
(* similarity in hundredths, durations in tenths, scales as <<num, den>>.   *)
(* The generated text is the sequence of its lines.                         *)
EXTENDS Integers, Sequences, FiniteSets, TLC

VARIABLES canvas, mw, ev

vars == <<canvas, mw, ev>>

----------------------------------------------------------------------------
(* Bounds of the model *)

MaxActions == 3
MaxUndo == 2

(* Program constants *)

DEFAULT_W == 720
DEFAULT_H == 1520
MinDrag == 5

None == <<>>
Some(v) == <<v>>

Min(a, b) == IF a <= b THEN a ELSE b
Max(a, b) == IF a >= b THEN a ELSE b
Abs(a) == IF a >= 0 THEN a ELSE -a

(* Python's int() of a quotient a / b with b > 0: truncation toward zero. *)
TruncDiv(a, b) == IF a >= 0 THEN a \div b ELSE -((-a) \div b)

(* PyQt's QPoint.__bool__ is "not isNull()": None and QPoint(0, 0) are falsy. *)
Truthy(p) == p # None /\ p # <<0, 0>>

----------------------------------------------------------------------------
(* Region model *)

RegionRect(n, x, y, w, h, c) ==
    [name |-> n, x |-> x, y |-> y, w |-> w, h |-> h, custom |-> c]

bounds(r) == <<r.x, r.y, r.x + r.w, r.y + r.h>>

(* clamp were it to bound the x coordinate only *)
clamp_Horizontal(r, px, py) ==
    LET b == bounds(r)
    IN  <<Min(Max(px, b[1]), b[3]), py>>

clamp(r, px, py) ==
    LET b == bounds(r)
    IN  <<Min(Max(px, b[1]), b[3]), Min(Max(py, b[2]), b[4])>>

PresetNames ==
    {"Upper_Half", "Lower_Half", "Upper_Left", "Upper_Right", "Lower_Left",
     "Lower_Right", "Home_Screen_Region", "Lower_Most_Half", "Agnes_Region", "Main"}

(* PresetRect were Main the whole screen *)
PresetRect_MainWholeScreen(n, W, H) ==
    CASE n = "Main"               -> <<0, 0, W, H>>
      [] n = "Upper_Half"         -> <<0, 0, W, H \div 2>>
      [] n = "Lower_Half"         -> <<0, H \div 2, W, H \div 2>>
      [] n = "Upper_Left"         -> <<0, 0, W \div 2, H \div 2>>
      [] n = "Upper_Right"        -> <<W \div 2, 0, W \div 2, H \div 2>>
      [] n = "Lower_Left"         -> <<0, H \div 2, W \div 2, H \div 2>>
      [] n = "Lower_Right"        -> <<W \div 2, H \div 2, W \div 2, H \div 2>>
      [] n = "Home_Screen_Region" -> <<W \div 2 - 20, 0, 40, 40>>
      [] n = "Lower_Most_Half"    -> <<0, H - H \div 14, W, H \div 14>>
      [] n = "Agnes_Region"       -> <<0, (H * 8) \div 100, (W * 30) \div 100, (H * 42) \div 100>>

(* int(H * 0.08), int(W * 0.30), int(H * 0.42) in double precision agree     *)
(* with the integer quotients below for every W, H from 1 to 200000, which  *)
(* includes the spin boxes' range 100..10000.                               *)
PresetRect(n, W, H) ==
    CASE n = "Upper_Half"         -> <<0, 0, W, H \div 2>>
      [] n = "Lower_Half"         -> <<0, H \div 2, W, H \div 2>>
      [] n = "Upper_Left"         -> <<0, 0, W \div 2, H \div 2>>
      [] n = "Upper_Right"        -> <<W \div 2, 0, W \div 2, H \div 2>>
      [] n = "Lower_Left"         -> <<0, H \div 2, W \div 2, H \div 2>>
      [] n = "Lower_Right"        -> <<W \div 2, H \div 2, W \div 2, H \div 2>>
      [] n = "Home_Screen_Region" -> <<W \div 2 - 20, 0, 40, 40>>
      [] n = "Lower_Most_Half"    -> <<0, H - H \div 14, W, H \div 14>>
      [] n = "Agnes_Region"       -> <<0, (H * 8) \div 100, (W * 30) \div 100, (H * 42) \div 100>>
      [] n = "Main"               -> <<0, 0, W, H \div 2>>

compute_regions(screen_w, screen_h) ==
    [n \in PresetNames |->
        LET t == PresetRect(n, screen_w, screen_h)
        IN  RegionRect(n, t[1], t[2], t[3], t[4], FALSE)]

(* Names a session of the model can meet, in Python's string order: the    *)
(* order sorted() gives them.                                               *)
NameOrder ==
    <<"AA", "Agnes_Region", "Home_Screen_Region", "Lower_Half", "Lower_Left",
      "Lower_Most_Half", "Lower_Right", "Main", "Upper_Half", "Upper_Left",
      "Upper_Right", "Zone", "main">>

sorted(S) == SelectSeq(NameOrder, LAMBDA n : n \in S)

SeqToSet(s) == {s[i] : i \in 1..Len(s)}

(* The dict d with d[k] = v set (key added or overwritten). *)
DictSet(d, k, v) == [n \in DOMAIN d \cup {k} |-> IF n = k THEN v ELSE d[n]]

DictDel(d, k) == [n \in DOMAIN d \ {k} |-> d[n]]

----------------------------------------------------------------------------
(* Code generator: MainWindow.refresh_output *)

TwoDigits(n) == IF n < 10 THEN "0" \o ToString(n) ELSE ToString(n)

(* f"{sim:.2f}" of a similarity kept in hundredths (0.9 is 90) *)
FormatSim(s) == ToString(s \div 100) \o "." \o TwoDigits(s % 100)

(* FormatDur were the duration written as a whole number *)
FormatDur_Whole(d) == ToString(d \div 10)

(* str() of a duration kept in tenths (0.4 is 4) *)
FormatDur(d) == ToString(d \div 10) \o "." \o ToString(d % 10)

Get(a, k, default) == IF k \in DOMAIN a THEN a[k] ELSE default

used_regs(actions) ==
    {actions[i].region : i \in {j \in 1..Len(actions) : "region" \in DOMAIN actions[j]}}

(* regions_to_define were only the regions some action refers to *)
regions_to_define_UsedOnly(regions, actions) == used_regs(actions)

regions_to_define(regions, actions) ==
    used_regs(actions) \cup {n \in DOMAIN regions : regions[n].custom}

RegionLine(r, rname) ==
    rname \o " = Region(" \o ToString(r.x) \o ", " \o ToString(r.y) \o ", "
          \o ToString(r.w) \o ", " \o ToString(r.h) \o ")"

RegionLines(regions, actions) ==
    LET names == SelectSeq(sorted(regions_to_define(regions, actions)),
                           LAMBDA n : n \in DOMAIN regions)
    IN  [i \in 1..Len(names) |-> RegionLine(regions[names[i]], names[i])]

(* ActionLine were every action without an img key given a line *)
ActionLine_AlwaysALine(a) ==
    IF "img" \in DOMAIN a THEN <<>> ELSE <<a.type \o "()">>

(* The lines one action contributes: none or one. *)
ActionLine(a) ==
    LET t == a.type
    IN  IF "img" \in DOMAIN a
        THEN LET img == a.img
                 reg == Get(a, "region", "")
                 sim == FormatSim(a.sim)
             IN  IF t \in {"clickimage", "click", "waitclick"}
                 THEN <<"clickimage(\"" \o img \o "\", 1, \"" \o reg \o "\", " \o sim \o ")">>
                 ELSE IF t = "exists"
                 THEN <<"exists(\"" \o img \o "\", \"" \o reg \o "\", " \o sim \o ")">>
                 ELSE IF t = "ifimage_then_click"
                 THEN <<"if exists(\"" \o img \o "\", \"" \o reg \o "\", " \o sim
                          \o ") then click(getLastMatch()) end">>
                 ELSE <<>>
        ELSE IF t = "swipe"
        THEN <<"swipe(Location(" \o ToString(a.from[1]) \o "," \o ToString(a.from[2])
                 \o "), Location(" \o ToString(a.to[1]) \o "," \o ToString(a.to[2])
                 \o "), " \o FormatDur(Get(a, "duration", 4)) \o ")">>
        ELSE IF t = "wait"
        THEN <<"wait(" \o ToString(Get(a, "timeout", 1)) \o ")">>
        ELSE <<>>

RECURSIVE ActionLines(_)
ActionLines(actions) ==
    IF actions = <<>> THEN <<>>
    ELSE ActionLine(Head(actions)) \o ActionLines(Tail(actions))

(* The text refresh_output puts in lua_out, as its lines: the heading of    *)
(* the actions is written with a leading newline, so an empty line goes     *)
(* before it.                                                               *)
GeneratedText(screen_w, screen_h, regions, actions) ==
    <<"-- Generated by Region & Swipe Designer By ZomBroX",
      "-- Screen " \o ToString(screen_w) \o "x" \o ToString(screen_h),
      "-- Regions">>
    \o RegionLines(regions, actions)
    \o <<"", "-- AnkuLua API Actions">>
    \o ActionLines(actions)

(* refresh_output were the selected region named in the text *)
refresh_output_NamesSelection(c, m) ==
    [m EXCEPT !.lua_out =
        GeneratedText(c.screen_w, c.screen_h, c.regions, m.actions)
        \o (IF c.selected_region # None
            THEN <<"-- Selected " \o c.selected_region[1].name>> ELSE <<>>)]

refresh_output(c, m) ==
    [m EXCEPT !.lua_out = GeneratedText(c.screen_w, c.screen_h, c.regions, m.actions)]

----------------------------------------------------------------------------
(* View geometry: Canvas.fit_view, actual_scale, final_offsets,             *)
(* canvas_to_screen.  A scale is the rational <<num, den>>.                 *)

(* The scale and the zoom factor are floats in the code and exact rationals *)
(* in the model; the zoom factor and the effective scale are kept in lowest *)
(* terms.                                                                   *)
RECURSIVE GCD(_, _)
GCD(a, b) == IF b = 0 THEN a ELSE GCD(b, a % b)

Norm(q) ==
    LET g == GCD(Abs(q[1]), Abs(q[2]))
    IN  IF g = 0 THEN q ELSE <<q[1] \div g, q[2] \div g>>

fit_view(c) ==
    LET cw == Max(1, c.width)
        ch == Max(1, c.height)
        fit == IF cw * c.screen_h <= ch * c.screen_w
               THEN <<cw, c.screen_w>> ELSE <<ch, c.screen_h>>
        disp_w == TruncDiv(c.screen_w * fit[1], fit[2])
        disp_h == TruncDiv(c.screen_h * fit[1], fit[2])
    IN  [c EXCEPT !.scale_to_fit = fit,
                  !.offset_fit_x = (cw - disp_w) \div 2,
                  !.offset_fit_y = (ch - disp_h) \div 2,
                  !.zoom_factor = <<1, 1>>,
                  !.pan_offset_x = 0,
                  !.pan_offset_y = 0]

actual_scale(c) ==
    Norm(<<c.scale_to_fit[1] * c.zoom_factor[1], c.scale_to_fit[2] * c.zoom_factor[2]>>)

final_offsets(c) ==
    <<c.offset_fit_x + c.pan_offset_x, c.offset_fit_y + c.pan_offset_y>>

(* canvas_to_screen were it to leave the pan out of the offsets *)
canvas_to_screen_FitOffsets(c, cx, cy) ==
    LET scale == actual_scale(c)
    IN  IF scale[1] = 0 THEN <<0, 0>>
        ELSE <<TruncDiv((cx - c.offset_fit_x) * scale[2], scale[1]),
               TruncDiv((cy - c.offset_fit_y) * scale[2], scale[1])>>

canvas_to_screen(c, cx, cy) ==
    LET scale == actual_scale(c)
        off == final_offsets(c)
    IN  IF scale[1] = 0 THEN <<0, 0>>
        ELSE <<TruncDiv((cx - off[1]) * scale[2], scale[1]),
               TruncDiv((cy - off[2]) * scale[2], scale[1])>>

(* The forward map of paintEvent, from a screen point to the widget pixel   *)
(* where it is drawn: int(sx * scale) + offx, int(sy * scale) + offy        *)
screen_to_canvas(c, sx, sy) ==
    LET scale == actual_scale(c)
        off == final_offsets(c)
    IN  <<TruncDiv(sx * scale[1], scale[2]) + off[1],
          TruncDiv(sy * scale[1], scale[2]) + off[2]>>

(* p < q for rationals with positive denominators *)
RatLess(p, q) == p[1] * q[2] < q[1] * p[2]

RatMin(p, q) == IF RatLess(q, p) THEN q ELSE p

RatMax(p, q) == IF RatLess(p, q) THEN q ELSE p

(* set_zoom_percent were the percentage taken as it comes *)
set_zoom_percent_Unclamped(c, pct) ==
    [c EXCEPT !.zoom_factor = Norm(<<pct, 100>>)]

set_zoom_percent(c, pct) ==
    [c EXCEPT !.zoom_factor = Norm(<<Max(10, Min(1000, pct)), 100>>)]

(* QSlider.setValue on zoom_slider, whose range is 10..300 *)
ZoomSlider(v) == Max(10, Min(300, v))

(* wheelEvent with angleDelta().y() = delta at the widget position pos: the *)
(* zoom is multiplied by 1.1 or 0.9 and clamped, the pan is set from the    *)
(* screen point under the pointer before the zoom, and the slider and its   *)
(* label follow with their signals blocked.                                 *)
wheelEvent(c, m, delta, pos) ==
    LET factor == IF delta > 0 THEN <<11, 10>> ELSE <<9, 10>>
        prod == <<c.zoom_factor[1] * factor[1], c.zoom_factor[2] * factor[2]>>
        new_zoom == Norm(RatMax(<<1, 10>>, RatMin(prod, <<10, 1>>)))
        before == canvas_to_screen(c, pos[1], pos[2])
        c1 == [c EXCEPT !.zoom_factor = new_zoom]
        scale == actual_scale(c1)
        c2 == [c1 EXCEPT
                 !.pan_offset_x =
                     TruncDiv((pos[1] - c.offset_fit_x) * scale[2] - before[1] * scale[1],
                              scale[2]),
                 !.pan_offset_y =
                     TruncDiv((pos[2] - c.offset_fit_y) * scale[2] - before[2] * scale[1],
                              scale[2])]
        pct == TruncDiv(new_zoom[1] * 100, new_zoom[2])
    IN  <<c2, [m EXCEPT !.zoom_slider = ZoomSlider(pct),
                        !.zoom_label = ToString(pct) \o "%"]>>

----------------------------------------------------------------------------
(* Region handlers of MainWindow.  A handler is an operator from the state  *)
(* <<canvas, mw>> it finds to the state <<canvas, mw>> it leaves.           *)

(* repopulate_regions were the canvas selection left as it was *)
repopulate_regions_KeepSelection(c, m, regions, active) ==
    LET names == sorted(DOMAIN regions)
        target == IF active # None /\ active[1] \in DOMAIN regions THEN active
                  ELSE IF names # <<>> THEN Some(names[1]) ELSE None
        cur == IF target # None THEN target[1] ELSE ""
    IN  <<c,
          [m EXCEPT !.region_box = [items |-> names, cur |-> cur],
                    !.action_region = [items |-> names, cur |-> cur]]>>

(* active is None or Some(name) *)
repopulate_regions(c, m, regions, active) ==
    LET names == sorted(DOMAIN regions)
        target == IF active # None /\ active[1] \in DOMAIN regions THEN active
                  ELSE IF names # <<>> THEN Some(names[1]) ELSE None
        cur == IF target # None THEN target[1] ELSE ""
    IN  <<IF target # None
          THEN [c EXCEPT !.selected_region = Some(regions[target[1]])]
          ELSE c,
          [m EXCEPT !.region_box = [items |-> names, cur |-> cur],
                    !.action_region = [items |-> names, cur |-> cur]]>>

on_region_change(c, m, txt) ==
    <<[c EXCEPT !.selected_region =
            IF txt \in DOMAIN c.regions THEN Some(c.regions[txt]) ELSE None],
      [m EXCEPT !.region_box.cur = txt]>>

(* apply_resolution were custom regions not carried over to the new mapping *)
apply_resolution_PresetsOnly(c, m, w, h) ==
    LET presets == compute_regions(w, h)
        c1 == [c EXCEPT !.screen_w = w, !.screen_h = h, !.regions = presets]
        rp == repopulate_regions(c1, m, presets, Some(m.region_box.cur))
        c2 == fit_view(rp[1])
    IN  <<c2, refresh_output(c2, rp[2])>>

apply_resolution(c, m, w, h) ==
    LET presets == compute_regions(w, h)
        customs == {n \in DOMAIN c.regions : c.regions[n].custom}
        merged == [n \in DOMAIN presets \cup customs |->
                      IF n \in customs THEN c.regions[n] ELSE presets[n]]
        c1 == [c EXCEPT !.screen_w = w, !.screen_h = h, !.regions = merged]
        rp == repopulate_regions(c1, m, merged, Some(m.region_box.cur))
        c2 == fit_view(rp[1])
    IN  <<c2, refresh_output(c2, rp[2])>>

(* del_region were presets deletable as well *)
del_region_AnyRegion(c, m) ==
    LET name == m.region_box.cur
    IN  IF name \in DOMAIN c.regions
        THEN LET c1 == [c EXCEPT !.regions = DictDel(c.regions, name)]
                 rp == repopulate_regions(c1, m, c1.regions, None)
             IN  <<rp[1], refresh_output(rp[1], rp[2])>>
        ELSE <<c, m>>

del_region(c, m) ==
    LET name == m.region_box.cur
    IN  IF name \in DOMAIN c.regions /\ c.regions[name].custom
        THEN LET c1 == [c EXCEPT !.regions = DictDel(c.regions, name)]
                 rp == repopulate_regions(c1, m, c1.regions, None)
             IN  <<rp[1], refresh_output(rp[1], rp[2])>>
        ELSE <<c, m>>

----------------------------------------------------------------------------
(* Action sequence handlers of MainWindow *)

(* update_act_list: the list widget is cleared and refilled, which leaves   *)
(* no current row (currentRow() is -1).                                     *)
update_act_list(m) == [m EXCEPT !.act_list = [count |-> Len(m.actions), row |-> -1]]

ImageTypes ==
    {"click", "clickimage", "waitclick", "exists", "existsClick", "imageexists",
     "wait", "waitVanish", "ifimage_then_click"}

ActionTypes ==
    ImageTypes \cup {"swipe", "dragDrop", "keyevent", "keyevent_back", "toast", "Logger"}

(* Python's int() of a text of the message/keycode field: <<TRUE, value>>, *)
(* or <<FALSE, 0>> where int() raises ValueError (as for abc).              *)
int(text) ==
    CASE text = "4" -> <<TRUE, 4>>
      [] text = "0" -> <<TRUE, 0>>
      [] OTHER -> <<FALSE, 0>>

(* "back" in t *)
HasBack(t) == t = "keyevent_back"

(* The dict add_action builds; built only where nothing raises. *)
NewAction(m, t, timeout, sim, text) ==
    LET a0 == [k \in {"type"} |-> t]
        a1 == IF t \in ImageTypes
              THEN DictSet(DictSet(DictSet(DictSet(a0, "img", m.snap_lbl),
                       "region", m.action_region.cur), "sim", sim), "timeout", timeout)
              ELSE a0
        a2 == IF t \in {"swipe", "dragDrop"}
              THEN DictSet(DictSet(a1, "from", <<m.sx, m.sy>>), "to", <<m.ex, m.ey>>)
              ELSE a1
        a3 == IF t = "swipe" THEN DictSet(a2, "duration", 4) ELSE a2
        a4 == IF t \in {"toast", "Logger"} THEN DictSet(a3, "message", text) ELSE a3
        a5 == IF t \in {"keyevent", "keyevent_back"}
              THEN DictSet(a4, "keycode",
                           IF HasBack(t) THEN 4 ELSE int(IF text # "" THEN text ELSE "0")[2])
              ELSE a4
    IN  a5

(* Whether add_action's int(self.msg_edit.toPlainText() or 0) raises. *)
AddActionRaises(t, text) ==
    /\ t \in {"keyevent", "keyevent_back"}
    /\ ~HasBack(t)
    /\ text # ""
    /\ ~int(text)[1]

AddActionMissingImage(m, t) == t \in ImageTypes /\ m.snap_lbl = "No Image"

AddActionCase(m, t, text) ==
    IF AddActionMissingImage(m, t) THEN "missing_image"
    ELSE IF AddActionRaises(t, text) THEN "raised"
    ELSE "appended"

add_action(c, m, t, timeout, sim, text) ==
    IF AddActionCase(m, t, text) # "appended"
    THEN m
    ELSE LET m1 == [m EXCEPT !.actions = Append(@, NewAction(m, t, timeout, sim, text))]
         IN  refresh_output(c, update_act_list(m1))

(* list.pop(row) and list.insert(row, item) for row >= 0, rows counted from 0 *)
ListPop(s, row) == SubSeq(s, 1, row) \o SubSeq(s, row + 2, Len(s))

(* ListInsert were the item put back at the end of the list *)
ListInsert_AtEnd(s, row, item) == Append(s, item)

ListInsert(s, row, item) ==
    LET k == Min(row, Len(s))
    IN  SubSeq(s, 1, k) \o <<item>> \o SubSeq(s, k + 1, Len(s))

(* The position in s of Python's s[i], which counts from the end when i is *)
(* negative                                                                 *)
PyIdx(s, i) == IF i < 0 THEN Len(s) + i + 1 ELSE i + 1

(* delete_action were the preview not regenerated after the deletion *)
delete_action_NoRefresh(c, m) ==
    LET row == m.act_list.row
    IN  IF row >= 0
        THEN LET item == m.actions[row + 1]
                 m1 == [m EXCEPT !.actions = ListPop(@, row),
                                 !.undo_stack = Append(@, <<row, item>>),
                                 !.btn_undo = TRUE]
             IN  update_act_list(m1)
        ELSE m

delete_action(c, m) ==
    LET row == m.act_list.row
    IN  IF row >= 0
        THEN LET item == m.actions[row + 1]
                 m1 == [m EXCEPT !.actions = ListPop(@, row),
                                 !.undo_stack = Append(@, <<row, item>>),
                                 !.btn_undo = TRUE]
             IN  refresh_output(c, update_act_list(m1))
        ELSE m

undo_action(c, m) ==
    IF m.undo_stack # <<>>
    THEN LET top == m.undo_stack[Len(m.undo_stack)]
             m1 == [m EXCEPT !.undo_stack = SubSeq(@, 1, Len(@) - 1),
                             !.actions = ListInsert(@, top[1], top[2])]
             m2 == refresh_output(c, update_act_list(m1))
         IN  [m2 EXCEPT !.btn_undo = (m2.undo_stack # <<>>)]
    ELSE m

(* move_action's condition 0 <= r + d < len(self.actions) *)
MoveInRange(m, d) == 0 <= m.act_list.row + d /\ m.act_list.row + d < Len(m.actions)

(* move_action were a move recorded on the undo stack *)
move_action_Recorded(c, m, d) ==
    LET r == m.act_list.row
    IN  IF MoveInRange(m, d)
        THEN LET i == PyIdx(m.actions, r)
                 j == PyIdx(m.actions, r + d)
                 m1 == [m EXCEPT !.actions =
                           [@ EXCEPT ![i] = m.actions[j], ![j] = m.actions[i]],
                                 !.undo_stack = Append(@, <<r, m.actions[i]>>)]
                 m2 == [update_act_list(m1) EXCEPT !.act_list.row = r + d]
             IN  refresh_output(c, m2)
        ELSE m

move_action(c, m, d) ==
    LET r == m.act_list.row
    IN  IF MoveInRange(m, d)
        THEN LET i == PyIdx(m.actions, r)
                 j == PyIdx(m.actions, r + d)
                 m1 == [m EXCEPT !.actions =
                           [@ EXCEPT ![i] = m.actions[j], ![j] = m.actions[i]]]
                 m2 == [update_act_list(m1) EXCEPT !.act_list.row = r + d]
             IN  refresh_output(c, m2)
        ELSE m

----------------------------------------------------------------------------
(* Files, profiles and the remaining MainWindow handlers *)

(* load_bg(path), img being QImage(path): None where isNull(), else its     *)
(* <<width, height>>                                                        *)
load_bg(c, path, img) ==
    IF img = None THEN c
    ELSE fit_view([c EXCEPT !.bg_image = img, !.bg_image_path = Some(path)])

(* QSpinBox.setValue on res_w / res_h, whose range is 100..10000 *)
ResSpin(v) == Max(100, Min(10000, v))

(* load_profile once the file is chosen and parsed into data; exists is     *)
(* os.path.exists(data["bg"]), img is QImage(data["bg"]).                   *)
RECURSIVE InsertCustoms(_, _)
InsertCustoms(regions, customs) ==
    IF customs = <<>> THEN regions
    ELSE InsertCustoms(DictSet(regions, Head(customs).name, Head(customs)), Tail(customs))

load_profile(c, m, data, exists, img) ==
    LET ar == apply_resolution(c, m, ResSpin(data.w), ResSpin(data.h))
        c1 == IF data.bg # None /\ exists THEN load_bg(ar[1], data.bg[1], img) ELSE ar[1]
        c2 == [c1 EXCEPT !.regions = InsertCustoms(@, data.customs)]
        rp == repopulate_regions(c2, ar[2], c2.regions, None)
        m1 == update_act_list([rp[2] EXCEPT !.actions = data.actions])
    IN  <<rp[1], refresh_output(rp[1], m1)>>

(* to_dict were it to leave the size out *)
to_dict_NoSize(r) ==
    [name |-> r.name, x |-> r.x, y |-> r.y, w |-> 0, h |-> 0, custom |-> r.custom]

(* RegionRect.to_dict: asdict of the dataclass *)
to_dict(r) ==
    [name |-> r.name, x |-> r.x, y |-> r.y, w |-> r.w, h |-> r.h, custom |-> r.custom]

(* save_profile were the action sequence left out of the file *)
save_profile_NoActions(c, m) ==
    LET names == sorted({n \in DOMAIN c.regions : c.regions[n].custom})
    IN  [w |-> c.screen_w, h |-> c.screen_h, bg |-> c.bg_image_path,
         customs |-> [i \in 1..Len(names) |-> to_dict(c.regions[names[i]])],
         actions |-> <<>>]

(* save_profile once the file is chosen: the data it dumps, as json.load    *)
(* gives them back (integers, strings, booleans, null and lists of these    *)
(* are kept by JSON).  The customs are listed in the mapping's order; their *)
(* names differ, so load_profile's result does not depend on the order and  *)
(* the model lists them by name.                                            *)
save_profile(c, m) ==
    LET names == sorted({n \in DOMAIN c.regions : c.regions[n].custom})
    IN  [w |-> c.screen_w, h |-> c.screen_h, bg |-> c.bg_image_path,
         customs |-> [i \in 1..Len(names) |-> to_dict(c.regions[names[i]])],
         actions |-> m.actions]

(* reset_app were the undo stack emptied with the actions *)
reset_app_ClearsUndo(c, m) ==
    LET ar == apply_resolution(c, m, ResSpin(DEFAULT_W), ResSpin(DEFAULT_H))
        c1 == [ar[1] EXCEPT !.bg_image = None]
        m1 == update_act_list([ar[2] EXCEPT !.actions = <<>>, !.undo_stack = <<>>,
                                            !.btn_undo = FALSE])
    IN  <<c1, refresh_output(c1, m1)>>

reset_app(c, m) ==
    LET ar == apply_resolution(c, m, ResSpin(DEFAULT_W), ResSpin(DEFAULT_H))
        c1 == [ar[1] EXCEPT !.bg_image = None]
        m1 == update_act_list([ar[2] EXCEPT !.actions = <<>>])
    IN  <<c1, refresh_output(c1, m1)>>

----------------------------------------------------------------------------
(* Canvas pointer handlers.  A button is "left" or "right"; pos is the      *)
(* event's widget position <<x, y>>.                                        *)

(* QSpinBox.setValue on sx, sy, ex, ey, whose range is -999..9999 *)
SwipeSpin(v) == Max(-999, Min(9999, v))

update_swipe_spinners_from_canvas(c, m) ==
    LET m1 == IF Truthy(c.swipe_start)
              THEN [m EXCEPT !.sx = SwipeSpin(c.swipe_start[1]),
                             !.sy = SwipeSpin(c.swipe_start[2])]
              ELSE m
    IN  IF Truthy(c.swipe_end)
        THEN [m1 EXCEPT !.ex = SwipeSpin(c.swipe_end[1]),
                        !.ey = SwipeSpin(c.swipe_end[2])]
        ELSE m1

reset_swipe_points(c, m) ==
    LET c1 == [c EXCEPT !.swipe_start = None, !.swipe_end = None]
    IN  <<c1, refresh_output(c1, [m EXCEPT !.sx = 0, !.sy = 0, !.ex = 0, !.ey = 0])>>

(* The colour of the background's pixel (px, py), as the text set_picked_   *)
(* color shows and copy_picked_color puts on the clipboard: the pixels are  *)
(* not modelled, so a colour is named by where it was read.                 *)
PixelColor(px, py) == "pixel(" \o ToString(px) \o "," \o ToString(py) \o ")"

(* on_canvas_color_picked were it to drop the colour *)
on_canvas_color_picked_Dropped(m, col) == m

on_canvas_color_picked(m, col) == [m EXCEPT !.picked_color = col, !.clipboard = col]

(* The click point of an idle or drag press: converted, then clamped into   *)
(* the selected region where constraining applies.                          *)
PressPoint(c, pos) ==
    LET p == canvas_to_screen(c, pos[1], pos[2])
    IN  IF c.snap_constrain_clicks /\ c.selected_region # None
           /\ ~(c.snap_mode \/ c.region_creation_mode)
        THEN clamp(c.selected_region[1], p[1], p[2])
        ELSE p

(* SwipeClick were a click on a complete pair to start a new pair *)
SwipeClick_Restart(c, p) ==
    IF c.swipe_start = None THEN [c EXCEPT !.swipe_start = p]
    ELSE IF c.swipe_end = None THEN [c EXCEPT !.swipe_end = p]
    ELSE [c EXCEPT !.swipe_start = p, !.swipe_end = None]

(* The idle branch of mousePressEvent: the click point p becomes the swipe *)
(* start if there is none, the swipe end otherwise.                         *)
SwipeClick(c, p) ==
    IF c.swipe_start = None
    THEN [c EXCEPT !.swipe_start = p]
    ELSE [c EXCEPT !.swipe_end = p]

mousePressEvent(c, m, button, pos) ==
    IF button = "right"
    THEN <<[c EXCEPT !.panning = TRUE, !.pan_last = pos], m>>
    ELSE IF c.color_pick_mode
    THEN LET c1 == [c EXCEPT !.color_pick_mode = FALSE]
             p == canvas_to_screen(c1, pos[1], pos[2])
         IN  IF c1.bg_image = None
             THEN <<c1, m>>
             ELSE LET px == Max(0, Min(p[1], c1.bg_image[1] - 1))
                      py == Max(0, Min(p[2], c1.bg_image[2] - 1))
                  IN  <<c1, on_canvas_color_picked(m, PixelColor(px, py))>>
    ELSE LET p == PressPoint(c, pos)
         IN  IF c.snap_mode
             THEN LET c1 == [c EXCEPT !.snap_start = p, !.snap_preview = p]
                  IN  <<c1, refresh_output(c1, m)>>
             ELSE IF c.region_creation_mode
             THEN LET c1 == [c EXCEPT !.region_start = p, !.region_preview = p]
                  IN  <<c1, refresh_output(c1, m)>>
             ELSE LET c1 == SwipeClick(c, p)
                  IN  <<c1, refresh_output(c1, update_swipe_spinners_from_canvas(c1, m))>>

(* Which path of mousePressEvent an event takes; an idle click is the      *)
(* first of a pair, the second, or one more after both points are set.      *)
PressCase(c, button) ==
    IF button = "right" THEN "pan"
    ELSE IF c.color_pick_mode
    THEN IF c.bg_image = None THEN "eyedropper_no_bg" ELSE "eyedropper"
    ELSE IF c.snap_mode THEN "snap_start"
    ELSE IF c.region_creation_mode THEN "region_start"
    ELSE IF c.swipe_start = None THEN "swipe_first"
    ELSE IF c.swipe_end = None THEN "swipe_second"
    ELSE "swipe_again"

mousePressMsg(c, button) ==
    IF button # "right" /\ c.color_pick_mode /\ c.bg_image = None
    THEN "No background image loaded!" ELSE ""

(* mouseMoveEvent were the drag preview also updated during a pan *)
mouseMoveEvent_PreviewWhilePanning(c, pos) ==
    LET p == canvas_to_screen(c, pos[1], pos[2])
        c1 == IF c.panning
              THEN [c EXCEPT !.pan_last = pos,
                             !.pan_offset_x = @ + (pos[1] - c.pan_last[1]),
                             !.pan_offset_y = @ + (pos[2] - c.pan_last[2])]
              ELSE c
    IN  IF c.snap_mode /\ Truthy(c.snap_start)
        THEN [c1 EXCEPT !.snap_preview = p]
        ELSE IF c.region_creation_mode /\ Truthy(c.region_start)
        THEN [c1 EXCEPT !.region_preview = p]
        ELSE c1

mouseMoveEvent(c, pos) ==
    IF c.panning
    THEN [c EXCEPT !.pan_last = pos,
                   !.pan_offset_x = @ + (pos[1] - c.pan_last[1]),
                   !.pan_offset_y = @ + (pos[2] - c.pan_last[2])]
    ELSE LET p == canvas_to_screen(c, pos[1], pos[2])
         IN  IF c.snap_mode /\ Truthy(c.snap_start)
             THEN [c EXCEPT !.snap_preview = p]
             ELSE IF c.region_creation_mode /\ Truthy(c.region_start)
             THEN [c EXCEPT !.region_preview = p]
             ELSE c

(* Which path of mouseMoveEvent an event takes *)
MoveCase(c) ==
    IF c.panning THEN "pan"
    ELSE IF c.snap_mode /\ Truthy(c.snap_start) THEN "snap_preview"
    ELSE IF c.region_creation_mode /\ Truthy(c.region_start) THEN "region_preview"
    ELSE "none"

(* save_snapshot_qimage: the file name the snapshot label is set to.  The   *)
(* names the model's prompts give do not end in ".png".                     *)
SnapFileName(name) == name \o ".png"

(* The rectangle of a drag from origin s released at p: <<x, y, w, h>> *)
DragRect(s, p) == <<Min(s[1], p[1]), Min(s[2], p[2]), Abs(p[1] - s[1]), Abs(p[2] - s[2])>>

(* TooSmall were a drag discarded only when both sides are short *)
TooSmall_BothSides(r) == r[3] < MinDrag /\ r[4] < MinDrag

(* mouseReleaseEvent's test w < 5 or h < 5 on the rectangle of a drag *)
TooSmall(r) == r[3] < MinDrag \/ r[4] < MinDrag

(* Which branch of mouseReleaseEvent an event takes.  prompt is what        *)
(* QInputDialog.getText returns where it is asked: <<ok, name>>.            *)
ReleaseBranch(c, button, pos, prompt) ==
    LET p == canvas_to_screen(c, pos[1], pos[2])
    IN  IF button = "right" THEN "pan"
        ELSE IF c.snap_mode /\ Truthy(c.snap_start)
        THEN LET r == DragRect(c.snap_start, p)
             IN  IF TooSmall(r) THEN "snap_small"
                 ELSE IF c.bg_image = None THEN "snap_no_bg"
                 ELSE IF prompt[1] /\ prompt[2] # "" THEN "snap_saved"
                 ELSE "snap_cancelled"
        ELSE IF c.region_creation_mode /\ Truthy(c.region_start)
        THEN LET r == DragRect(c.region_start, p)
             IN  IF TooSmall(r) THEN "region_small"
                 ELSE IF ~(prompt[1] /\ prompt[2] # "") THEN "region_cancelled"
                 ELSE IF prompt[2] \in DOMAIN c.regions THEN "region_duplicate"
                 ELSE "region_added"
        ELSE "none"

(* The branches in which QInputDialog.getText is called *)
ReleasePrompts(br) ==
    br \in {"snap_saved", "snap_cancelled", "region_cancelled", "region_duplicate",
            "region_added"}

(* NameRegion were the name not looked up in the mapping first *)
NameRegion_Overwrite(c, m, name, r) ==
    LET reg == RegionRect(name, r[1], r[2], r[3], r[4], TRUE)
        c2 == [c EXCEPT !.regions = DictSet(@, name, reg),
                        !.selected_region = Some(reg)]
        rp == repopulate_regions(c2, m, c2.regions, Some(name))
    IN  <<rp[1], refresh_output(rp[1], rp[2])>>

(* mouseReleaseEvent once a region drag of rectangle r is given the name:   *)
(* a name in the mapping is reported and nothing is added.                  *)
NameRegion(c, m, name, r) ==
    IF name \in DOMAIN c.regions
    THEN <<c, m>>
    ELSE LET reg == RegionRect(name, r[1], r[2], r[3], r[4], TRUE)
             c2 == [c EXCEPT !.regions = DictSet(@, name, reg),
                             !.selected_region = Some(reg)]
             rp == repopulate_regions(c2, m, c2.regions, Some(name))
         IN  <<rp[1], refresh_output(rp[1], rp[2])>>

mouseReleaseEvent(c, m, button, pos, prompt) ==
    LET p == canvas_to_screen(c, pos[1], pos[2])
        br == ReleaseBranch(c, button, pos, prompt)
    IN  IF br = "pan" THEN <<[c EXCEPT !.panning = FALSE], m>>
        ELSE IF br \in {"snap_small", "snap_no_bg", "snap_saved", "snap_cancelled"}
        THEN LET c1 == [c EXCEPT !.snap_mode = FALSE, !.snap_start = None,
                                 !.snap_preview = None]
             IN  IF br = "snap_saved"
                 THEN <<c1, [m EXCEPT !.snap_lbl = SnapFileName(prompt[2])]>>
                 ELSE <<c1, m>>
        ELSE IF br \in {"region_small", "region_cancelled", "region_duplicate", "region_added"}
        THEN LET r == DragRect(c.region_start, p)
                 c1 == [c EXCEPT !.region_creation_mode = FALSE, !.region_start = None,
                                 !.region_preview = None]
             IN  IF br \in {"region_duplicate", "region_added"}
                 THEN NameRegion(c1, m, prompt[2], r)
                 ELSE <<c1, m>>
        ELSE <<c, m>>

mouseReleaseMsg(br, prompt) ==
    CASE br = "snap_no_bg" -> "No background image loaded!"
      [] br = "snap_saved" -> "Saved " \o SnapFileName(prompt[2])
      [] br = "region_duplicate" -> "Region '" \o prompt[2] \o "' already exists."
      [] OTHER -> ""

----------------------------------------------------------------------------
(* The state after MainWindow() is built and shown *)

(* Sizes of the canvas widget the window is shown with *)
Viewports == {<<360, 760>>}

InitCanvas(vp) ==
    LET regions == compute_regions(DEFAULT_W, DEFAULT_H)
    IN  fit_view(
        [screen_w |-> DEFAULT_W, screen_h |-> DEFAULT_H,
         width |-> vp[1], height |-> vp[2],
         scale_to_fit |-> <<1, 1>>, offset_fit_x |-> 0, offset_fit_y |-> 0,
         zoom_factor |-> <<1, 1>>, pan_offset_x |-> 0, pan_offset_y |-> 0,
         panning |-> FALSE, pan_last |-> <<0, 0>>,
         bg_image |-> None, bg_image_path |-> None,
         regions |-> regions,
         selected_region |-> Some(regions["Upper_Right"]),
         snap_constrain_clicks |-> TRUE,
         region_creation_mode |-> FALSE, region_start |-> None, region_preview |-> None,
         snap_mode |-> FALSE, snap_start |-> None, snap_preview |-> None,
         swipe_start |-> None, swipe_end |-> None,
         color_pick_mode |-> FALSE])

InitMw ==
    [actions |-> <<>>, undo_stack |-> <<>>, btn_undo |-> FALSE,
     region_box |-> [items |-> <<>>, cur |-> ""],
     action_region |-> [items |-> <<>>, cur |-> ""],
     snap_lbl |-> "No Image",
     sx |-> 0, sy |-> 0, ex |-> 0, ey |-> 0,
     act_list |-> [count |-> 0, row |-> -1],
     lua_out |-> <<>>,
     picked_color |-> "#FFFFFF", clipboard |-> "",
     profile_file |-> None,
     zoom_slider |-> 100, zoom_label |-> "100%"]

(* What the last event was and what its handler did: op is the handler that *)
(* ran, case the path it took through its conditions (empty where it has    *)
(* one path), msg the text of the message box it showed (empty for none),   *)
(* raised the exception that left it (empty for none); wheels counts the    *)
(* wheel events since Fit was last clicked.                                 *)
Event(op, case, msg, raised) ==
    [op |-> op, case |-> case, msg |-> msg, raised |-> raised,
     wheels |-> IF op = "wheelEvent" THEN ev.wheels + 1
                ELSE IF op = "fit_view" THEN 0 ELSE ev.wheels]

Init ==
    \E vp \in Viewports :
        LET c0 == InitCanvas(vp)
            rp == repopulate_regions(c0, InitMw, c0.regions, None)
        IN  /\ canvas = rp[1]
            /\ mw = rp[2]
            /\ ev = [op |-> "init", case |-> "", msg |-> "", raised |-> "", wheels |-> 0]

----------------------------------------------------------------------------
(* Events of the action builder and the script sequence *)

(* btn_add_act.clicked, with the builder's widgets read as inputs *)
AddAction(t, timeout, sim, text) ==
    /\ Len(mw.actions) + Len(mw.undo_stack) < MaxActions
    /\ canvas' = canvas
    /\ mw' = add_action(canvas, mw, t, timeout, sim, text)
    /\ ev' = Event("add_action", AddActionCase(mw, t, text),
                   IF AddActionCase(mw, t, text) = "missing_image" THEN "Choose image" ELSE "",
                   IF AddActionCase(mw, t, text) = "raised" THEN "ValueError" ELSE "")

(* The user picks row i of act_list *)
SelectRow(i) ==
    /\ i \in 0..(mw.act_list.count - 1)
    /\ i # mw.act_list.row
    /\ canvas' = canvas
    /\ mw' = [mw EXCEPT !.act_list.row = i]
    /\ ev' = Event("select_row", "", "", "")

DeleteAction ==
    /\ Len(mw.undo_stack) < MaxUndo
    /\ canvas' = canvas
    /\ mw' = delete_action(canvas, mw)
    /\ ev' = Event("delete_action", IF mw.act_list.row >= 0 THEN "deleted" ELSE "none", "", "")

UndoAction ==
    /\ canvas' = canvas
    /\ mw' = undo_action(canvas, mw)
    /\ ev' = Event("undo_action", IF mw.undo_stack # <<>> THEN "restored" ELSE "none", "", "")

(* btn_up.clicked is move_action(-1), btn_dn.clicked is move_action(1) *)
MoveAction(d) ==
    /\ canvas' = canvas
    /\ mw' = move_action(canvas, mw, d)
    /\ ev' = Event("move_action", IF MoveInRange(mw, d) THEN "swapped" ELSE "none", "", "")

(* select_manual_snap: the file dialog gives fp ("" when dismissed) *)
SelectManualSnap(fp) ==
    /\ canvas' = canvas
    /\ mw' = IF fp # "" THEN [mw EXCEPT !.snap_lbl = fp] ELSE mw
    /\ ev' = Event("select_manual_snap", "", "", "")

ResetApp ==
    /\ LET res == reset_app(canvas, mw)
       IN  canvas' = res[1] /\ mw' = res[2]
    /\ ev' = Event("reset_app", "", "", "")

LoadProfile(data, exists, img) ==
    /\ LET res == load_profile(canvas, mw, data, exists, img)
       IN  canvas' = res[1] /\ mw' = res[2]
    /\ ev' = Event("load_profile", "", "", "")

(* save_profile: the file dialog gives fp ("" when dismissed); the file it  *)
(* writes is kept in profile_file.                                          *)
SaveProfile(fp) ==
    /\ canvas' = canvas
    /\ mw' = IF fp # "" THEN [mw EXCEPT !.profile_file = Some(save_profile(canvas, mw))]
             ELSE mw
    /\ ev' = Event("save_profile", IF fp # "" THEN "saved" ELSE "none",
                   IF fp # "" THEN "Profile saved to " \o fp ELSE "", "")

(* load_profile with the file that save_profile wrote, a profile saved      *)
(* without background                                                       *)
LoadSaved ==
    /\ mw.profile_file # None
    /\ mw.profile_file[1].bg = None
    /\ LoadProfile(mw.profile_file[1], FALSE, None)

----------------------------------------------------------------------------
(* The action sequence manager under every event that writes the sequence  *)
(* or the undo stack                                                        *)

AddInputsAct ==
    {<<"clickimage", "">>, <<"wait", "">>, <<"swipe", "">>,
     <<"keyevent", "4">>, <<"keyevent", "abc">>}

ProfilesAct ==
    {[w |-> DEFAULT_W, h |-> DEFAULT_H, bg |-> None, customs |-> <<>>,
      actions |-> <<[type |-> "wait", timeout |-> 5]>>]}

NextAct ==
    \/ \E in \in AddInputsAct : AddAction(in[1], 15, 90, in[2])
    \/ \E i \in 0..(MaxActions + MaxUndo) : SelectRow(i)
    \/ DeleteAction
    \/ UndoAction
    \/ \E d \in {-1, 1} : MoveAction(d)
    \/ \E fp \in {"", "a.png"} : SelectManualSnap(fp)
    \/ ResetApp
    \/ \E data \in ProfilesAct : LoadProfile(data, FALSE, None)

SpecAct == Init /\ [][NextAct]_vars

----------------------------------------------------------------------------
(* Events of the canvas and of the region panel *)

MaxPan == 2

(* The wheel is turned by at most MaxWheel steps between two clicks on Fit. *)
MaxWheel == 3

StartRegCreate ==
    /\ canvas' = [canvas EXCEPT !.region_creation_mode = TRUE]
    /\ mw' = mw
    /\ ev' = Event("start_reg_create", "", "", "")

(* btn_snap_sel.clicked: setattr(self.canvas, "snap_mode", True) *)
StartSnapSelection ==
    /\ canvas' = [canvas EXCEPT !.snap_mode = TRUE]
    /\ mw' = mw
    /\ ev' = Event("snap_selection", "", "", "")

StartEyedropper ==
    /\ canvas' = [canvas EXCEPT !.color_pick_mode = TRUE]
    /\ mw' = mw
    /\ ev' = Event("start_eyedropper", "", "", "")

(* constrain_chk.stateChanged *)
ToggleConstrain ==
    /\ canvas' = [canvas EXCEPT !.snap_constrain_clicks = ~@]
    /\ mw' = mw
    /\ ev' = Event("constrain_chk", "", "", "")

ResetSwipePoints ==
    /\ LET res == reset_swipe_points(canvas, mw)
       IN  canvas' = res[1] /\ mw' = res[2]
    /\ ev' = Event("reset_swipe_points", "", "", "")

MousePress(button, pos) ==
    /\ LET res == mousePressEvent(canvas, mw, button, pos)
       IN  canvas' = res[1] /\ mw' = res[2]
    /\ ev' = Event("mousePressEvent", PressCase(canvas, button),
                   mousePressMsg(canvas, button), "")

MouseMove(pos) ==
    /\ canvas' = mouseMoveEvent(canvas, pos)
    /\ Abs(canvas'.pan_offset_x) <= MaxPan
    /\ Abs(canvas'.pan_offset_y) <= MaxPan
    /\ mw' = mw
    /\ ev' = Event("mouseMoveEvent", MoveCase(canvas), "", "")

MouseRelease(button, pos, prompt) ==
    /\ LET res == mouseReleaseEvent(canvas, mw, button, pos, prompt)
       IN  canvas' = res[1] /\ mw' = res[2]
    /\ ev' = Event("mouseReleaseEvent", ReleaseBranch(canvas, button, pos, prompt),
                   mouseReleaseMsg(ReleaseBranch(canvas, button, pos, prompt), prompt), "")

(* upload_bg: the file dialog gives fp ("" when dismissed), img is QImage(fp) *)
UploadBg(fp, img) ==
    /\ canvas' = IF fp # "" THEN load_bg(canvas, fp, img) ELSE canvas
    /\ mw' = mw
    /\ ev' = Event("upload_bg", "", "", "")

OnRegionChange(txt) ==
    /\ txt \in SeqToSet(mw.region_box.items)
    /\ txt # mw.region_box.cur
    /\ LET res == on_region_change(canvas, mw, txt)
       IN  canvas' = res[1] /\ mw' = res[2]
    /\ ev' = Event("on_region_change", "", "", "")

DelRegion ==
    /\ LET res == del_region(canvas, mw)
       IN  canvas' = res[1] /\ mw' = res[2]
    /\ ev' = Event("del_region",
                   IF canvas'.regions # canvas.regions THEN "deleted" ELSE "none", "", "")

ApplyResolution(w, h) ==
    /\ LET res == apply_resolution(canvas, mw, w, h)
       IN  canvas' = res[1] /\ mw' = res[2]
    /\ ev' = Event("apply_resolution", "", "", "")

(* btn_fit.clicked *)
FitView ==
    /\ canvas' = fit_view(canvas)
    /\ mw' = mw
    /\ ev' = Event("fit_view", "", "", "")

(* zoom_slider.valueChanged: the user moves the slider to pct *)
SetZoomPercent(pct) ==
    /\ pct = ZoomSlider(pct)
    /\ pct # mw.zoom_slider
    /\ canvas' = set_zoom_percent(canvas, pct)
    /\ mw' = [mw EXCEPT !.zoom_slider = pct]
    /\ ev' = Event("set_zoom_percent", "", "", "")

WheelEvent(delta, pos) ==
    /\ LET res == wheelEvent(canvas, mw, delta, pos)
       IN  canvas' = res[1] /\ mw' = res[2]
    /\ ev.wheels < MaxWheel
    /\ ev' = Event("wheelEvent", IF delta > 0 THEN "in" ELSE "out", "", "")

----------------------------------------------------------------------------
(* The interaction modes of the canvas under the mode buttons and pointer   *)
(* events                                                                   *)

PointerPtsMode == {<<0, 0>>, <<100, 200>>}

PromptsMode == {<<FALSE, "">>, <<TRUE, "AA">>}

NextMode ==
    \/ StartRegCreate
    \/ StartSnapSelection
    \/ StartEyedropper
    \/ ToggleConstrain
    \/ ResetSwipePoints
    \/ \E pos \in PointerPtsMode : MousePress("left", pos)
    \/ \E pos \in PointerPtsMode : MouseMove(pos)
    \/ \E pos \in PointerPtsMode, pr \in PromptsMode : MouseRelease("left", pos, pr)

SpecMode == Init /\ [][NextMode]_vars

----------------------------------------------------------------------------
(* The region model under selection, creation by drag, deletion,            *)
(* resolution changes, profile loads and Reset All.  The pointer is pressed *)
(* here only to start a region drag; idle clicks are left to SpecMode.      *)

PointerPtsReg == {<<0, 0>>, <<100, 200>>}

PromptsReg == {<<FALSE, "">>, <<TRUE, "AA">>, <<TRUE, "main">>, <<TRUE, "Main">>}

ResolutionsReg == {<<720, 1520>>, <<1080, 1920>>}

RegionChoicesReg == {"AA", "Main", "main"}

ProfilesReg ==
    {[w |-> 1080, h |-> 1920, bg |-> None,
      customs |-> <<RegionRect("AA", 800, 1600, 50, 60, TRUE),
                    RegionRect("Zone", 5, 5, 30, 30, FALSE)>>,
      actions |-> <<[type |-> "exists", img |-> "a.png", region |-> "AA",
                     sim |-> 90, timeout |-> 15],
                    [type |-> "clickimage", img |-> "b.png", region |-> "Main",
                     sim |-> 80, timeout |-> 15]>>]}

NextReg ==
    \/ \E txt \in RegionChoicesReg : OnRegionChange(txt)
    \/ StartRegCreate
    \/ \E pos \in PointerPtsReg : canvas.region_creation_mode /\ MousePress("left", pos)
    \/ \E pos \in PointerPtsReg, pr \in PromptsReg : MouseRelease("left", pos, pr)
    \/ DelRegion
    \/ \E res \in ResolutionsReg : ApplyResolution(res[1], res[2])
    \/ \E data \in ProfilesReg : LoadProfile(data, FALSE, None)
    \/ ResetApp

SpecReg == Init /\ [][NextReg]_vars

----------------------------------------------------------------------------
(* The script preview under every operation that writes one of the code     *)
(* generator's inputs: the screen size, the region mapping, the action      *)
(* sequence.                                                                *)

MaxGenActions == 2
MaxGenUndo == 1

AddInputsGen == {<<"swipe", "">>, <<"keyevent_back", "">>}

PressPtsGen == {<<100, 200>>}

ReleasePtsGen == {<<0, 0>>}

PromptsGen == {<<TRUE, "AA">>}

ProfilesGen ==
    {[w |-> 1080, h |-> 1920, bg |-> None,
      customs |-> <<RegionRect("Zone", 5, 5, 30, 30, TRUE)>>,
      actions |-> <<[type |-> "exists", img |-> "a.png", region |-> "Zone",
                     sim |-> 90, timeout |-> 15]>>]}

NextGen ==
    \/ \E in \in AddInputsGen :
           /\ Len(mw.actions) + Len(mw.undo_stack) < MaxGenActions
           /\ AddAction(in[1], 15, 90, in[2])
    \/ \E i \in 0..(MaxGenActions - 1) : SelectRow(i)
    \/ Len(mw.undo_stack) < MaxGenUndo /\ DeleteAction
    \/ UndoAction
    \/ \E d \in {-1, 1} : MoveAction(d)
    \/ StartRegCreate
    \/ \E pos \in PressPtsGen : canvas.region_creation_mode /\ MousePress("left", pos)
    \/ \E pos \in ReleasePtsGen, pr \in PromptsGen : MouseRelease("left", pos, pr)
    \/ DelRegion
    \/ \E res \in ResolutionsReg : ApplyResolution(res[1], res[2])
    \/ \E data \in ProfilesGen : LoadProfile(data, FALSE, None)
    \/ ResetApp

SpecGen == Init /\ [][NextGen]_vars

----------------------------------------------------------------------------
(* The action builder with every action type of the type box *)

MaxTypesLen == 3

NextTypes ==
    \/ \E t \in ActionTypes :
           Len(mw.actions) < MaxTypesLen /\ AddAction(t, 15, 90, "4")
    \/ \E fp \in {"a.png"} : SelectManualSnap(fp)
    \/ \E d \in {-1, 1} : MoveAction(d)

SpecTypes == Init /\ [][NextTypes]_vars

----------------------------------------------------------------------------
(* Swipes: two idle clicks give the end points, which the From / To spin    *)
(* boxes take over, and Add Action stores them.  The widget shows the       *)
(* screen at scale 1/2, so the points below are the screen points (10, 20)  *)
(* and (30, 40); with Constrain Clicks on they are clamped into the         *)
(* selected region.                                                         *)

MaxSwipeLen == 2

PointerPtsSwipe == {<<5, 10>>, <<15, 20>>}

NextSwipe ==
    \/ \E pos \in PointerPtsSwipe : MousePress("left", pos)
    \/ ToggleConstrain
    \/ ResetSwipePoints
    \/ \E t \in {"swipe", "dragDrop"} :
           Len(mw.actions) < MaxSwipeLen /\ AddAction(t, 15, 90, "")

SpecSwipe == Init /\ [][NextSwipe]_vars

----------------------------------------------------------------------------
(* Backgrounds and profiles: Upload Image, Load Profile with and without a  *)
(* saved background path, Reset All, and the region panel.                  *)

(* What the file dialog and QImage give upload_bg *)
UploadsLoad == {<<"", None>>, <<"bg.png", <<720, 1520>>>>}

(* A profile chosen in load_profile with os.path.exists(data["bg"]) and     *)
(* QImage(data["bg"]): a profile whose background file is gone, one whose   *)
(* file is there, one saved without background.                             *)
LoadsLoad ==
    {<<[w |-> 1080, h |-> 1920, bg |-> Some("gone.png"),
        customs |-> <<RegionRect("AA", 10, 20, 50, 60, TRUE)>>,
        actions |-> <<[type |-> "wait", timeout |-> 5]>>], FALSE, None>>,
     <<[w |-> 1080, h |-> 1920, bg |-> Some("shot.png"),
        customs |-> <<>>,
        actions |-> <<[type |-> "swipe", from |-> <<1, 2>>, to |-> <<3, 4>>]>>],
       TRUE, <<1080, 1920>>>>,
     <<[w |-> DEFAULT_W, h |-> DEFAULT_H, bg |-> None, customs |-> <<>>, actions |-> <<>>],
       FALSE, None>>}

RegionChoicesLoad == {"AA", "Main", "Lower_Half"}

NextLoad ==
    \/ \E up \in UploadsLoad : UploadBg(up[1], up[2])
    \/ \E ld \in LoadsLoad : LoadProfile(ld[1], ld[2], ld[3])
    \/ ResetApp
    \/ \E res \in ResolutionsReg : ApplyResolution(res[1], res[2])
    \/ \E txt \in RegionChoicesLoad : OnRegionChange(txt)
    \/ DelRegion

SpecLoad == Init /\ [][NextLoad]_vars

----------------------------------------------------------------------------
(* Panning: the secondary button pressed, the pointer moved while it is     *)
(* held, and the button released, in every mode and during every drag.  The *)
(* primary button is pressed while the view is not yet panned and released  *)
(* at any time; moves without a pan are left to SpecMode.  The pointer      *)
(* moves by one widget pixel on each axis.                                  *)

PointerPtsPan == {<<100, 200>>, <<101, 201>>}

PromptsPan == {<<FALSE, "">>}

NextPan ==
    \/ StartRegCreate
    \/ StartSnapSelection
    \/ StartEyedropper
    \/ \E pos \in PointerPtsPan :
           canvas.pan_offset_x = 0 /\ ~canvas.panning /\ MousePress("left", pos)
    \/ \E pos \in PointerPtsPan : MousePress("right", pos)
    \/ \E pos \in PointerPtsPan : canvas.panning /\ MouseMove(pos)
    \/ \E b \in {"left", "right"}, pos \in PointerPtsPan, pr \in PromptsPan :
           MouseRelease(b, pos, pr)

SpecPan == Init /\ [][NextPan]_vars

----------------------------------------------------------------------------
(* The eyedropper: armed by its button, it samples the background at the    *)
(* next primary click.  Backgrounds of the screen's size and smaller are    *)
(* uploaded, Reset All unloads them, and the view is panned by up to two    *)
(* widget pixels so that clicks convert to points left of and above the     *)
(* image as well as beyond its right and bottom edges.  Besides the         *)
(* eyedropper's clicks there is one idle click or drag start, so that a     *)
(* swipe point or a drag origin is there to be kept.                        *)

PointerPtsPick == {<<0, 0>>, <<30, 40>>, <<100, 200>>}

PanPtsPick == {<<0, 0>>, <<2, 1>>}

UploadsPick == {<<"", None>>, <<"bg.png", <<720, 1520>>>>, <<"icon.png", <<100, 100>>>>}

NextPick ==
    \/ StartEyedropper
    \/ StartRegCreate
    \/ \E pos \in PointerPtsPick :
           /\ canvas.color_pick_mode \/ (canvas.swipe_start = None /\ ~canvas.panning)
           /\ MousePress("left", pos)
    \/ \E pos \in PanPtsPick : ~canvas.panning /\ MousePress("right", pos)
    \/ \E pos \in PanPtsPick : canvas.panning /\ MouseMove(pos)
    \/ \E pos \in PanPtsPick : canvas.panning /\ MouseRelease("right", pos, <<FALSE, "">>)
    \/ \E up \in UploadsPick : UploadBg(up[1], up[2])
    \/ ResetApp

SpecPick == Init /\ [][NextPick]_vars

----------------------------------------------------------------------------
(* The presets under the resolutions of the spin boxes: widths and heights  *)
(* at the ends of the range 100..10000, odd and even ones, and ones that    *)
(* the divisors 2, 14 and 100 of the formulas do not divide.                *)

WidthsPreset == {100, 101, 333, 720, 999, 1080, 1439, 2160, 9999, 10000}

HeightsPreset == {100, 113, 777, 1520, 1920, 2559, 3120, 4001, 9999, 10000}

NextPreset ==
    \E w \in WidthsPreset, h \in HeightsPreset : ApplyResolution(w, h)

SpecPreset == Init /\ [][NextPreset]_vars

----------------------------------------------------------------------------
(* Profiles written and read back: custom regions are drawn and deleted,    *)
(* actions added, the resolution changed and the session reset between a    *)
(* save and a load, so that a profile is loaded into the session that wrote *)
(* it and into sessions that differ from it in every saved part.  A drag    *)
(* starts at widget (100, 200) and ends 20 x 30 widget pixels away, or      *)
(* straight below its origin (a region without width, which is refused).    *)

MaxProfileActions == 1

PressPtsProfile == {<<100, 200>>}

ReleasePtsProfile == {<<100, 230>>, <<120, 230>>}

PromptsProfile == {<<TRUE, "AA">>}

ResolutionsProfile == {<<100, 100>>}

AddInputsProfile == {<<"toast", "hi">>}

NextProfile ==
    \/ StartRegCreate
    \/ \E pos \in PressPtsProfile : canvas.region_creation_mode /\ MousePress("left", pos)
    \/ \E pos \in ReleasePtsProfile, pr \in PromptsProfile :
           canvas.region_start # None /\ MouseRelease("left", pos, pr)
    \/ DelRegion
    \/ \E res \in ResolutionsProfile : ApplyResolution(res[1], res[2])
    \/ \E in \in AddInputsProfile :
           Len(mw.actions) < MaxProfileActions /\ AddAction(in[1], 15, 90, in[2])
    \/ \E fp \in {"", "p.json"} : SaveProfile(fp)
    \/ LoadSaved
    \/ ResetApp

SpecProfile == Init /\ [][NextProfile]_vars

----------------------------------------------------------------------------
(* The view transform under Fit, the zoom slider, the wheel and a pan with  *)
(* the secondary button.  The slider is moved to the ends of its range and  *)
(* to 100, while the view is panned by at most MaxPan widget pixels (the    *)
(* wheel moves the pan further at every step); the wheel is turned either   *)
(* way at two widget positions.                                             *)

PointerPtsZoom == {<<5, 10>>, <<101, 201>>}

PanPtsZoom == {<<0, 0>>, <<2, 1>>}

PercentsZoom == {10, 100, 300}

NextZoom ==
    \/ FitView
    \/ \E pct \in PercentsZoom :
           /\ Abs(canvas.pan_offset_x) <= MaxPan /\ Abs(canvas.pan_offset_y) <= MaxPan
           /\ SetZoomPercent(pct)
    \/ \E delta \in {-120, 120}, pos \in PointerPtsZoom : WheelEvent(delta, pos)
    \/ \E pos \in PanPtsZoom :
           /\ ~canvas.panning /\ canvas.pan_offset_x = 0 /\ canvas.pan_offset_y = 0
           /\ MousePress("right", pos)
    \/ \E pos \in PanPtsZoom : canvas.panning /\ MouseMove(pos)
    \/ \E pos \in PanPtsZoom : canvas.panning /\ MouseRelease("right", pos, <<FALSE, "">>)

SpecZoom == Init /\ [][NextZoom]_vars

----------------------------------------------------------------------------
(* Profiles written by hand: load_profile builds a RegionRect from every    *)
(* entry of "customs" and stores it under the entry's name, whatever       *)
(* the name and the custom flag are.  The profiles below name a preset,     *)
(* once with the custom flag and once without it, and a region of their     *)
(* own.                                                                     *)

ProfilesShadow ==
    {[w |-> 1080, h |-> 1920, bg |-> None,
      customs |-> <<RegionRect("Main", 1, 2, 30, 40, TRUE)>>, actions |-> <<>>],
     [w |-> 1080, h |-> 1920, bg |-> None,
      customs |-> <<RegionRect("Main", 5, 6, 70, 80, FALSE)>>, actions |-> <<>>],
     [w |-> DEFAULT_W, h |-> DEFAULT_H, bg |-> None,
      customs |-> <<RegionRect("AA", 10, 20, 50, 60, TRUE)>>, actions |-> <<>>]}

RegionChoicesShadow == {"AA", "Main", "Zone"}

NextShadow ==
    \/ \E data \in ProfilesShadow : LoadProfile(data, FALSE, None)
    \/ \E txt \in RegionChoicesShadow : OnRegionChange(txt)
    \/ StartRegCreate
    \/ \E pos \in PressPtsGen : canvas.region_creation_mode /\ MousePress("left", pos)
    \/ \E pos \in ReleasePtsGen, pr \in {<<TRUE, "Zone">>, <<TRUE, "Main">>} :
           MouseRelease("left", pos, pr)
    \/ DelRegion
    \/ \E res \in ResolutionsReg : ApplyResolution(res[1], res[2])
    \/ ResetApp

SpecShadow == Init /\ [][NextShadow]_vars

----------------------------------------------------------------------------
(* Image actions and the regions they name: a region is drawn, an image is  *)
(* chosen, actions are added with the region of the action box, and the     *)
(* region is deleted again.                                                 *)

MaxRefActions == 2

AddTypesRef == {"exists", "ifimage_then_click", "waitVanish"}

RegionChoicesRef == {"AA", "Main"}

NextRef ==
    \/ StartRegCreate
    \/ \E pos \in PressPtsGen : canvas.region_creation_mode /\ MousePress("left", pos)
    \/ \E pos \in ReleasePtsGen, pr \in PromptsGen : MouseRelease("left", pos, pr)
    \/ \E fp \in {"a.png"} : SelectManualSnap(fp)
    \/ \E t \in AddTypesRef :
           Len(mw.actions) < MaxRefActions /\ AddAction(t, 15, 90, "")
    \/ \E txt \in RegionChoicesRef : OnRegionChange(txt)
    \/ DelRegion
    \/ \E res \in ResolutionsReg : ApplyResolution(res[1], res[2])
    \/ ResetApp

SpecRef == Init /\ [][NextRef]_vars

----------------------------------------------------------------------------
(* The background reference of the session and of the saved profile: Upload *)
(* Image, Reset All, Save Profile, and Load Profile with the profiles of    *)
(* SpecLoad.                                                                *)

NextBg ==
    \/ \E up \in UploadsLoad : UploadBg(up[1], up[2])
    \/ ResetApp
    \/ \E fp \in {"", "p.json"} : SaveProfile(fp)
    \/ \E ld \in LoadsLoad : LoadProfile(ld[1], ld[2], ld[3])
    \/ \E res \in ResolutionsReg : ApplyResolution(res[1], res[2])

SpecBg == Init /\ [][NextBg]_vars

----------------------------------------------------------------------------
(* Reset All in a session with everything it could touch: a custom region   *)
(* drawn by drag, swipe points set by idle clicks, a background, another    *)
(* resolution, actions, and deleted actions on the undo stack.              *)

MaxResetActions == 2

PressPtsReset == {<<100, 200>>}

ReleasePtsReset == {<<150, 300>>}

AddInputsReset == {<<"toast", "hi">>}

ResolutionsReset == {<<1080, 1920>>}

UploadsReset == {<<"bg.png", <<720, 1520>>>>}

NextReset ==
    \/ StartRegCreate
    \/ \E pos \in PressPtsReset : MousePress("left", pos)
    \/ \E pos \in ReleasePtsReset, pr \in PromptsGen : MouseRelease("left", pos, pr)
    \/ \E up \in UploadsReset : UploadBg(up[1], up[2])
    \/ \E res \in ResolutionsReset : ApplyResolution(res[1], res[2])
    \/ \E in \in AddInputsReset :
           /\ Len(mw.actions) + Len(mw.undo_stack) < MaxResetActions
           /\ AddAction(in[1], 15, 90, in[2])
    \/ \E i \in 0..(MaxResetActions - 1) : SelectRow(i)
    \/ DeleteAction
    \/ UndoAction
    \/ ResetApp

SpecReset == Init /\ [][NextReset]_vars

----------------------------------------------------------------------------
(* Region and snapshot drags: the mode buttons, a press that starts a drag  *)
(* and the release that ends it, with and without a background image.  The  *)
(* widget shows the screen at scale 1/2, so the points below are 0, 2, 4    *)
(* or 6 screen pixels apart on each axis.                                   *)

PointerPtsDrag == {<<0, 0>>, <<100, 200>>, <<103, 201>>, <<101, 203>>, <<103, 203>>}

PromptsDrag == {<<FALSE, "">>, <<TRUE, "">>, <<TRUE, "AA">>}

(* What the file dialog and QImage give upload_bg: dismissed, a file that   *)
(* is no image, an image of 720 x 1520 pixels                               *)
UploadsDrag == {<<"", None>>, <<"notes.txt", None>>, <<"bg.png", <<720, 1520>>>>}

NextDrag ==
    \/ StartRegCreate
    \/ StartSnapSelection
    \/ \E pos \in PointerPtsDrag :
           (canvas.region_creation_mode \/ canvas.snap_mode) /\ MousePress("left", pos)
    \/ \E pos \in PointerPtsDrag, pr \in PromptsDrag : MouseRelease("left", pos, pr)
    \/ \E up \in UploadsDrag : UploadBg(up[1], up[2])

SpecDrag == Init /\ [][NextDrag]_vars

----------------------------------------------------------------------------
(* Claims about the interaction modes (SpecMode) *)

(* No region-create, snapshot or eyedropper mode is active. *)
Idle(c) == ~c.region_creation_mode /\ ~c.snap_mode /\ ~c.color_pick_mode

(* C1, as claimed: in Idle mode the first primary pointer-down sets the     *)
(* swipe start, the second sets the swipe end, and a third one while both   *)
(* are set restarts the pair: the swipe start is the new click point and    *)
(* the swipe end is unset.                                                  *)
C1_TwoClickThenReset ==
    [][\A pos \in PointerPtsMode :
          (Idle(canvas) /\ MousePress("left", pos)) =>
              LET p == PressPoint(canvas, pos)
              IN  /\ canvas.swipe_start = None =>
                         canvas'.swipe_start = p /\ canvas'.swipe_end = canvas.swipe_end
                  /\ canvas.swipe_start # None /\ canvas.swipe_end = None =>
                         canvas'.swipe_start = canvas.swipe_start /\ canvas'.swipe_end = p
                  /\ canvas.swipe_start # None /\ canvas.swipe_end # None =>
                         canvas'.swipe_start = p /\ canvas'.swipe_end = None]_vars

(* C1, amended: in Idle mode the first primary pointer-down sets the swipe  *)
(* start, the second sets the swipe end, and a third one while both are set *)
(* replaces the swipe end by the new click point and keeps the swipe start: *)
(* the pair is not restarted.                                               *)
C1_TwoClickThenReplaceEnd ==
    [][\A pos \in PointerPtsMode :
          (Idle(canvas) /\ MousePress("left", pos)) =>
              LET p == PressPoint(canvas, pos)
              IN  /\ canvas.swipe_start = None =>
                         canvas'.swipe_start = p /\ canvas'.swipe_end = canvas.swipe_end
                  /\ canvas.swipe_start # None /\ canvas.swipe_end = None =>
                         canvas'.swipe_start = canvas.swipe_start /\ canvas'.swipe_end = p
                  /\ canvas.swipe_start # None /\ canvas.swipe_end # None =>
                         canvas'.swipe_start = canvas.swipe_start /\ canvas'.swipe_end = p]_vars

(* A third idle click has been handled, on a pair whose end differed from   *)
(* the new click point.                                                     *)
C1_Witness ==
    /\ ev.op = "mousePressEvent"
    /\ ev.case = "swipe_again"
    /\ Idle(canvas)
    /\ canvas.swipe_start # None
    /\ canvas.swipe_end # None
    /\ canvas.swipe_end # canvas.swipe_start

(* C2, as claimed: at most one of the modes RegionCreate, SnapshotSelect    *)
(* and Eyedropper is active, and no drag origin of one mode is set while a  *)
(* different mode is active.                                                *)
C2_OneModeAtATime ==
    /\ Cardinality({f \in {"region_creation_mode", "snap_mode", "color_pick_mode"} :
                       canvas[f]}) <= 1
    /\ canvas.region_start # None => ~canvas.snap_mode /\ ~canvas.color_pick_mode
    /\ canvas.snap_start # None => ~canvas.region_creation_mode /\ ~canvas.color_pick_mode

----------------------------------------------------------------------------
(* Claims about the action sequence and its undo stack (SpecAct) *)

MaxDeletes == 3

(* C3, as claimed: move_action(d) swaps the actions at rows r and r + d     *)
(* only when both are valid indices of the sequence, and leaves the         *)
(* sequence unchanged in every other case, r = -1 (no row selected)         *)
(* included.                                                                *)
C3_MoveSwapsOnlyValidRows ==
    [][\A d \in {-1, 1} :
          MoveAction(d) =>
              LET r == mw.act_list.row
                  n == Len(mw.actions)
              IN  IF 0 <= r /\ r < n /\ 0 <= r + d /\ r + d < n
                  THEN mw'.actions = [mw.actions EXCEPT ![r + 1] = mw.actions[r + d + 1],
                                                        ![r + d + 1] = mw.actions[r + 1]]
                  ELSE mw'.actions = mw.actions]_vars

(* The user picks row and presses Delete; presses Undo n times. *)
DeleteRow(m, row) == delete_action(canvas, [m EXCEPT !.act_list.row = row])

RECURSIVE UndoTimes(_, _)
UndoTimes(m, n) == IF n = 0 THEN m ELSE UndoTimes(undo_action(canvas, m), n - 1)

(* After n deletions that led from m0 to m, n undos lead back to the        *)
(* sequence and the stack of m0; and so after up to k more deletions.       *)
RECURSIVE UndosRestore(_, _, _, _)
UndosRestore(m0, m, n, k) ==
    /\ LET u == UndoTimes(m, n)
       IN  u.actions = m0.actions /\ u.undo_stack = m0.undo_stack
    /\ k > 0 => \A row \in 0..(Len(m.actions) - 1) :
                    UndosRestore(m0, DeleteRow(m, row), n + 1, k - 1)

(* C4: from any action sequence, k >= 1 consecutive deletions at valid      *)
(* rows followed by k undos restore the content and order the sequence had  *)
(* before the first deletion (and the stack it had); an undo with an empty  *)
(* undo stack changes neither the sequence nor the stack.                   *)
C4_DeletesThenUndosRestore ==
    /\ UndosRestore(mw, mw, 0, MaxDeletes)
    /\ mw.undo_stack = <<>> =>
           LET u == undo_action(canvas, mw)
           IN  u.actions = mw.actions /\ u.undo_stack = mw.undo_stack

(* An undo has put back the last of the deleted actions, in front of or     *)
(* between two others.                                                      *)
C4_Witness ==
    /\ ev.op = "undo_action"
    /\ ev.case = "restored"
    /\ mw.undo_stack = <<>>
    /\ Len(mw.actions) >= 3
    /\ mw.actions[1] # mw.actions[2]

(* C5, as claimed: whenever undo is invoked with top undo entry (i, a),     *)
(* the action a is at index i of the sequence immediately afterwards.       *)
C5_UndoRestoresAtIndex ==
    [][(UndoAction /\ mw.undo_stack # <<>>) =>
          LET top == mw.undo_stack[Len(mw.undo_stack)]
          IN  /\ top[1] + 1 <= Len(mw'.actions)
              /\ mw'.actions[top[1] + 1] = top[2]]_vars

(* C6, as claimed: add_action for an image-bearing type while the snapshot  *)
(* label is No Image reports and leaves the sequence, the undo stack and    *)
(* the generated text unchanged; in every other case it appends exactly one *)
(* action and leaves the existing actions as they were.                     *)
C6_AddReportsOrAppends ==
    [][\A in \in AddInputsAct :
          AddAction(in[1], 15, 90, in[2]) =>
              IF in[1] \in ImageTypes /\ mw.snap_lbl = "No Image"
              THEN /\ ev'.msg # ""
                   /\ mw'.actions = mw.actions
                   /\ mw'.undo_stack = mw.undo_stack
                   /\ mw'.lua_out = mw.lua_out
              ELSE /\ Len(mw'.actions) = Len(mw.actions) + 1
                   /\ SubSeq(mw'.actions, 1, Len(mw.actions)) = mw.actions]_vars

(* C7, as claimed: every action of type wait in the sequence is rendered in *)
(* the generated text as one line wait(<timeout>) carrying its timeout.     *)
C7_WaitRendered ==
    \A i \in 1..Len(mw.actions) :
        (mw.actions[i].type = "wait" /\ "timeout" \in DOMAIN mw.actions[i]) =>
            LET line == "wait(" \o ToString(mw.actions[i].timeout) \o ")"
            IN  /\ ActionLine(mw.actions[i]) = <<line>>
                /\ \E j \in 1..Len(mw.lua_out) : mw.lua_out[j] = line

(* C8, as claimed: add_action never ends in an unhandled error: for every   *)
(* type and every content of the message/keycode field it either appends    *)
(* one action, or reports and leaves the sequence unchanged.                *)
C8_AddNeverRaises ==
    [][\A in \in AddInputsAct :
          AddAction(in[1], 15, 90, in[2]) =>
              /\ ev'.raised = ""
              /\ \/ /\ Len(mw'.actions) = Len(mw.actions) + 1
                    /\ SubSeq(mw'.actions, 1, Len(mw.actions)) = mw.actions
                 \/ /\ ev'.msg # ""
                    /\ mw'.actions = mw.actions]_vars

----------------------------------------------------------------------------
(* Claims about the region model (SpecReg) *)

(* C9: the selected region is none, or is the RegionRect the mapping holds  *)
(* under its name.                                                          *)
C9_SelectionInMapping ==
    \/ canvas.selected_region = None
    \/ LET r == canvas.selected_region[1]
       IN  r.name \in DOMAIN canvas.regions /\ canvas.regions[r.name] = r

(* A resolution change has replaced the selected preset by the one computed *)
(* for the new screen.                                                      *)
C9_Witness ==
    /\ ev.op = "apply_resolution"
    /\ canvas.screen_w = 1080
    /\ canvas.selected_region # None
    /\ canvas.selected_region[1] = compute_regions(1080, 1920)["Main"]

(* C10: finishing a region drag of at least 5 by 5 pixels and confirming a  *)
(* name that is a key of the mapping shows the duplicate-name error and     *)
(* leaves the mapping, the selected region and the generated text as they   *)
(* were.                                                                    *)
C10_DuplicateNameKeepsState ==
    [][\A pos \in PointerPtsReg, pr \in PromptsReg :
          (/\ ev'.op = "mouseReleaseEvent"
           /\ canvas.region_creation_mode
           /\ Truthy(canvas.region_start)
           /\ ~(canvas.snap_mode /\ Truthy(canvas.snap_start))
           /\ LET r == DragRect(canvas.region_start, canvas_to_screen(canvas, pos[1], pos[2]))
              IN  r[3] >= MinDrag /\ r[4] >= MinDrag
           /\ pr[1]
           /\ pr[2] \in DOMAIN canvas.regions
           /\ MouseRelease("left", pos, pr)) =>
              /\ ev'.msg = "Region '" \o pr[2] \o "' already exists."
              /\ canvas'.regions = canvas.regions
              /\ canvas'.selected_region = canvas.selected_region
              /\ mw'.lua_out = mw.lua_out]_vars

(* The name of a custom region made earlier has been refused for a second   *)
(* drag.                                                                    *)
C10_Witness ==
    /\ ev.op = "mouseReleaseEvent"
    /\ ev.case = "region_duplicate"
    /\ ev.msg = "Region 'AA' already exists."
    /\ "AA" \in DOMAIN canvas.regions
    /\ canvas.regions["AA"].custom

(* C12: Delete Region on the chosen name removes exactly that entry of the  *)
(* mapping when the name is in the mapping and its region is custom; when   *)
(* the region is a preset or the name is absent, the mapping, the selection *)
(* and the generated text are left as they were.                            *)
C12_DeleteOnlyCustom ==
    [][(ev'.op = "del_region" /\ DelRegion) =>
          LET name == mw.region_box.cur
          IN  IF name \in DOMAIN canvas.regions /\ canvas.regions[name].custom
              THEN /\ DOMAIN canvas'.regions = DOMAIN canvas.regions \ {name}
                   /\ \A n \in DOMAIN canvas'.regions : canvas'.regions[n] = canvas.regions[n]
              ELSE /\ canvas'.regions = canvas.regions
                   /\ canvas'.selected_region = canvas.selected_region
                   /\ mw'.region_box = mw.region_box
                   /\ mw'.action_region = mw.action_region
                   /\ mw'.lua_out = mw.lua_out]_vars

(* The custom region AA has been deleted while presets and another region   *)
(* stayed.                                                                  *)
C12_Witness ==
    /\ ev.op = "del_region"
    /\ ev.case = "deleted"
    /\ "AA" \notin DOMAIN canvas.regions
    /\ PresetNames \subseteq DOMAIN canvas.regions

(* C13: Apply Resolution to w by h leaves every custom region of the        *)
(* mapping in it under its name with x, y, w, h and the custom flag as they *)
(* were, even where it then lies outside the new screen, and every region   *)
(* of the new mapping that is not custom is the preset compute_regions      *)
(* gives for w by h under its name; each preset name not taken by a custom  *)
(* region is in the new mapping.                                            *)
C13_ResolutionKeepsCustoms ==
    [][\A res \in ResolutionsReg :
          (ev'.op = "apply_resolution" /\ ApplyResolution(res[1], res[2])) =>
              LET presets == compute_regions(res[1], res[2])
              IN  /\ canvas'.screen_w = res[1] /\ canvas'.screen_h = res[2]
                  /\ \A n \in DOMAIN canvas.regions :
                         canvas.regions[n].custom =>
                             /\ n \in DOMAIN canvas'.regions
                             /\ canvas'.regions[n] = canvas.regions[n]
                  /\ \A n \in DOMAIN canvas'.regions :
                         ~canvas'.regions[n].custom =>
                             n \in PresetNames /\ canvas'.regions[n] = presets[n]
                  /\ \A n \in PresetNames : n \in DOMAIN canvas'.regions]_vars

(* The screen has gone from 1080 x 1920 to 720 x 1520 with the custom       *)
(* region AA at (800, 1600), which is now outside the screen.               *)
C13_Witness ==
    /\ ev.op = "apply_resolution"
    /\ canvas.screen_w = 720
    /\ "AA" \in DOMAIN canvas.regions
    /\ canvas.regions["AA"] = RegionRect("AA", 800, 1600, 50, 60, TRUE)
    /\ canvas.regions["AA"].x > canvas.screen_w
    /\ canvas.regions["Main"] = RegionRect("Main", 0, 0, 720, 760, FALSE)

(* The place of a name in ascending string order, and the i-th name of a    *)
(* set of names in that order                                               *)
Rank(n) == CHOOSE i \in 1..Len(NameOrder) : NameOrder[i] = n

NthName(S, i) == CHOOSE n \in S : Cardinality({k \in S : Rank(k) < Rank(n)}) = i - 1

(* C15: the region-definition lines of the generated text, which follow the *)
(* Regions heading and end before the empty line and the actions heading,   *)
(* are exactly one line per name that is a key of the mapping and is either *)
(* referenced by an action or the name of a custom region, in ascending     *)
(* order of name, each giving the x, y, w, h the mapping holds for the      *)
(* name; a referenced name that is no key of the mapping has no line.       *)
C15_RegionLinesExact ==
    LET text == refresh_output(canvas, mw).lua_out
        referenced == {mw.actions[i].region :
                          i \in {j \in 1..Len(mw.actions) : "region" \in DOMAIN mw.actions[j]}}
        names == {n \in DOMAIN canvas.regions :
                     n \in referenced \/ canvas.regions[n].custom}
        k == Cardinality(names)
    IN  /\ Len(text) >= k + 5
        /\ text[3] = "-- Regions"
        /\ text[k + 4] = ""
        /\ text[k + 5] = "-- AnkuLua API Actions"
        /\ \A i \in 1..k :
               LET n == NthName(names, i)
                   r == canvas.regions[n]
               IN  text[3 + i] = n \o " = Region(" \o ToString(r.x) \o ", " \o ToString(r.y)
                                   \o ", " \o ToString(r.w) \o ", " \o ToString(r.h) \o ")"

(* The preview shows the regions of a session whose actions refer to the    *)
(* deleted region AA and to the preset Main, and which has the custom       *)
(* region main: lines for Main and main, in this order, and none for AA.    *)
C15_Witness ==
    /\ ev.op = "del_region"
    /\ ev.case = "deleted"
    /\ Len(mw.actions) = 2
    /\ mw.actions[1].region = "AA"
    /\ "AA" \notin DOMAIN canvas.regions
    /\ "main" \in DOMAIN canvas.regions
    /\ canvas.screen_w = 1080
    /\ SubSeq(mw.lua_out, 3, 7) =
          <<"-- Regions", "Main = Region(0, 0, 1080, 960)", "main = Region(0, 0, 200, 400)",
            "", "-- AnkuLua API Actions">>

----------------------------------------------------------------------------
(* Claims about region and snapshot drags (SpecDrag) *)

(* A drag of the mode is in progress: its origin is set. *)
SnapDrag(c) == c.snap_mode /\ c.snap_start # None
RegionDrag(c) == c.region_creation_mode /\ c.region_start # None

(* The drag from origin s released at screen point p is under 5 pixels wide *)
(* or under 5 pixels high.                                                  *)
Degenerate(s, p) == Abs(p[1] - s[1]) < 5 \/ Abs(p[2] - s[2]) < 5

(* C11: a release that ends a RegionCreate or SnapshotSelect drag whose     *)
(* normalized width or height is below 5 screen pixels discards the drag:   *)
(* no name prompt is issued (the outcome is the same whatever the prompt    *)
(* would answer), no region is added to the mapping, no snapshot is saved   *)
(* and no error is reported.                                                *)
C11_SmallDragDiscarded ==
    [][\A pos \in PointerPtsDrag, pr \in PromptsDrag :
          (/\ ev'.op = "mouseReleaseEvent"
           /\ SnapDrag(canvas) \/ RegionDrag(canvas)
           /\ MouseRelease("left", pos, pr)
           /\ LET p == canvas_to_screen(canvas, pos[1], pos[2])
              IN  /\ SnapDrag(canvas) => Degenerate(canvas.snap_start, p)
                  /\ RegionDrag(canvas) => Degenerate(canvas.region_start, p)) =>
              /\ ~ReleasePrompts(ev'.case)
              /\ \A pr2 \in PromptsDrag :
                     mouseReleaseEvent(canvas, mw, "left", pos, pr2) = <<canvas', mw'>>
              /\ canvas'.regions = canvas.regions
              /\ mw'.snap_lbl = mw.snap_lbl
              /\ mw' = mw
              /\ ev'.msg = ""
              /\ ev'.raised = ""]_vars

(* A snapshot drag 6 pixels wide and 2 high has been released over a loaded *)
(* background and discarded.                                                *)
C11_Witness ==
    /\ ev.op = "mouseReleaseEvent"
    /\ ev.case = "snap_small"
    /\ canvas.bg_image # None
    /\ ~canvas.snap_mode
    /\ canvas.snap_start = None
    /\ mw.snap_lbl = "No Image"

----------------------------------------------------------------------------
(* Claims about the script preview (SpecGen) *)

(* C14: after every completed operation that changes the screen size, the   *)
(* region mapping or the action sequence, the displayed text is the code    *)
(* generator's text for the screen size, mapping and sequence the operation *)
(* leaves: the preview is never stale.                                      *)
C14_PreviewNeverStale ==
    [][(/\ ev'.raised = ""
        /\ \/ canvas'.screen_w # canvas.screen_w
           \/ canvas'.screen_h # canvas.screen_h
           \/ canvas'.regions # canvas.regions
           \/ mw'.actions # mw.actions) =>
          mw'.lua_out = GeneratedText(canvas'.screen_w, canvas'.screen_h,
                                      canvas'.regions, mw'.actions)]_vars

(* A deletion from a sequence of two actions has been shown in the preview  *)
(* of a session with a custom region on the 1080 x 1920 screen.             *)
C14_Witness ==
    /\ ev.op = "delete_action"
    /\ ev.case = "deleted"
    /\ Len(mw.actions) = 1
    /\ canvas.screen_w = 1080
    /\ \E n \in DOMAIN canvas.regions : canvas.regions[n].custom
    /\ mw.lua_out = GeneratedText(canvas.screen_w, canvas.screen_h, canvas.regions, mw.actions)

(* What a second session may differ in from the session <<c, m>>: zoom,     *)
(* pan, the active mode with its drag origin, the selected region, the      *)
(* swipe points, the background image and the undo stack.  Plain is a       *)
(* session fresh in all of them; Differences are the sessions that are      *)
(* plain in all but one, or in none.                                        *)
Plain ==
    [zoom |-> <<1, 1>>, pan |-> <<0, 0>>, mode |-> "idle", sel |-> None,
     swipe |-> <<None, None>>, bg |-> None, undo |-> <<>>]

AllDifferences(c) ==
    [zoom : {<<1, 1>>, <<5, 2>>},
     pan : {<<0, 0>>, <<-30, 12>>},
     mode : {"idle", "region", "snap", "eyedropper"},
     sel : {None} \cup {Some(c.regions[n]) : n \in {"Lower_Half"} \cap DOMAIN c.regions},
     swipe : {<<None, None>>, <<<<10, 20>>, <<30, 40>>>>},
     bg : {None, <<720, 1520>>},
     undo : {<<>>, <<<<0, [type |-> "wait", timeout |-> 5]>>>>}]

Differences(c) ==
    {d \in AllDifferences(c) :
        LET n == Cardinality({f \in DOMAIN Plain : d[f] # Plain[f]})
        IN  n <= 1 \/ n = Cardinality(DOMAIN Plain)}

(* The session that has the screen size, region mapping and action sequence *)
(* of <<c, m>> and the differences d.                                       *)
OtherSession(c, m, d) ==
    <<[c EXCEPT !.zoom_factor = d.zoom,
                !.pan_offset_x = d.pan[1], !.pan_offset_y = d.pan[2],
                !.region_creation_mode = (d.mode = "region"),
                !.region_start = IF d.mode = "region" THEN <<1, 1>> ELSE None,
                !.snap_mode = (d.mode = "snap"),
                !.snap_start = IF d.mode = "snap" THEN <<1, 1>> ELSE None,
                !.color_pick_mode = (d.mode = "eyedropper"),
                !.selected_region = d.sel,
                !.swipe_start = d.swipe[1], !.swipe_end = d.swipe[2],
                !.bg_image = d.bg],
      [m EXCEPT !.undo_stack = d.undo, !.btn_undo = (d.undo # <<>>)]>>

(* C18: the generated text is a function of the screen size, the region     *)
(* mapping and the action sequence only.  A session that agrees with this   *)
(* one on the three and differs in zoom, pan, mode, selected region, swipe  *)
(* points, background or undo stack generates the same text.                *)
C18_TextOfInputsOnly ==
    LET text == refresh_output(canvas, mw).lua_out
    IN  \A d \in Differences(canvas) :
            LET o == OtherSession(canvas, mw, d)
            IN  /\ o[1].screen_w = canvas.screen_w /\ o[1].screen_h = canvas.screen_h
                /\ o[1].regions = canvas.regions
                /\ o[2].actions = mw.actions
                /\ refresh_output(o[1], o[2]).lua_out = text

(* A press that starts a region drag has regenerated the text of a session  *)
(* with actions, a custom region and a non-empty undo stack: a session that *)
(* is plain in nothing but zoom, pan, swipe points and background.          *)
C18_Witness ==
    /\ ev.op = "mousePressEvent"
    /\ ev.case = "region_start"
    /\ canvas.region_start # None
    /\ mw.undo_stack # <<>>
    /\ mw.actions # <<>>
    /\ \E n \in DOMAIN canvas.regions : canvas.regions[n].custom
    /\ mw.lua_out = GeneratedText(canvas.screen_w, canvas.screen_h, canvas.regions, mw.actions)

----------------------------------------------------------------------------
(* Claims about the lines of the actions (SpecTypes) *)

(* The action types the claim lists as having no render template *)
NoTemplateTypes ==
    {"existsClick", "imageexists", "waitVanish", "dragDrop", "keyevent", "keyevent_back",
     "toast", "Logger"}

(* The lines of the generated text after the heading of the actions *)
ActionSection(text) ==
    LET h == CHOOSE i \in 1..Len(text) : text[i] = "-- AnkuLua API Actions"
    IN  SubSeq(text, h + 1, Len(text))

(* C16: the action lines of the generated text are in the order of their    *)
(* actions in the sequence and no action has more than one: line i is the   *)
(* line of action f[i] for a strictly increasing f; and no line is the line *)
(* of an action of a type without render template, which is in the          *)
(* sequence all the same.                                                   *)
C16_ActionLinesInOrder ==
    LET body == ActionSection(refresh_output(canvas, mw).lua_out)
    IN  \E f \in [1..Len(body) -> 1..Len(mw.actions)] :
            /\ \A i, j \in 1..Len(body) : i < j => f[i] < f[j]
            /\ \A i \in 1..Len(body) :
                   /\ mw.actions[f[i]].type \notin NoTemplateTypes
                   /\ ActionLine(mw.actions[f[i]]) = <<body[i]>>

(* A swipe, a keyevent and an exists action are in the sequence, in this    *)
(* order, and the preview has the line of the swipe, then the line of the   *)
(* exists, and none for the keyevent.                                       *)
C16_Witness ==
    /\ ev.op = "add_action"
    /\ ev.case = "appended"
    /\ Len(mw.actions) = 3
    /\ mw.actions[1].type = "swipe"
    /\ mw.actions[2].type = "keyevent"
    /\ mw.actions[3].type = "exists"
    /\ ActionSection(mw.lua_out) =
          <<"swipe(Location(0,0), Location(0,0), 0.4)",
            "exists(\"a.png\", \"Agnes_Region\", 0.90)">>

----------------------------------------------------------------------------
(* Claims about swipes (SpecSwipe) *)

(* The line the claim gives for a swipe from (fx, fy) to (tx, ty) *)
SwipeLineClaimed(fx, fy, tx, ty) ==
    "swipe(Location(" \o ToString(fx) \o "," \o ToString(fy) \o "), Location("
        \o ToString(tx) \o "," \o ToString(ty) \o "), 0.4)"

(* C17: Add Action of type swipe stores the From and To spin boxes as from  *)
(* and to, and every swipe action of the sequence from (fx, fy) to (tx, ty) *)
(* is then in the generated text as the line                                *)
(* swipe(Location(fx,fy), Location(tx,ty), 0.4), the new one as the last    *)
(* line.                                                                    *)
C17_SwipeRendered ==
    [][(ev'.op = "add_action" /\ AddAction("swipe", 15, 90, "")) =>
          LET n == Len(mw'.actions)
              a == mw'.actions[n]
          IN  /\ n = Len(mw.actions) + 1
              /\ a.type = "swipe"
              /\ a.from = <<mw.sx, mw.sy>>
              /\ a.to = <<mw.ex, mw.ey>>
              /\ mw'.lua_out[Len(mw'.lua_out)] =
                     SwipeLineClaimed(mw.sx, mw.sy, mw.ex, mw.ey)
              /\ \A i \in 1..n :
                     mw'.actions[i].type = "swipe" =>
                         \E j \in 1..Len(mw'.lua_out) :
                             mw'.lua_out[j] =
                                 SwipeLineClaimed(mw'.actions[i].from[1], mw'.actions[i].from[2],
                                                  mw'.actions[i].to[1], mw'.actions[i].to[2])]_vars

(* The swipe from (10, 20) to (30, 40), clicked on the canvas, has been     *)
(* added and is the last line of the preview.                               *)
C17_Witness ==
    /\ ev.op = "add_action"
    /\ ev.case = "appended"
    /\ mw.actions # <<>>
    /\ mw.actions[Len(mw.actions)].type = "swipe"
    /\ canvas.swipe_start = <<10, 20>>
    /\ canvas.swipe_end = <<30, 40>>
    /\ mw.lua_out # <<>>
    /\ mw.lua_out[Len(mw.lua_out)] = "swipe(Location(10,20), Location(30,40), 0.4)"

----------------------------------------------------------------------------
(* Claims about backgrounds and profiles (SpecLoad) *)

(* C19, as claimed: loading a profile whose saved background path no longer *)
(* exists completes the load (the resolution, the saved custom regions and  *)
(* the action sequence are those of the profile) and leaves the session     *)
(* without a background image, whatever background was loaded before.       *)
C19_StaleBgLoadsWithoutBg ==
    [][\A ld \in LoadsLoad :
          (/\ ev'.op = "load_profile"
           /\ ld[1].bg # None
           /\ ~ld[2]
           /\ LoadProfile(ld[1], ld[2], ld[3])) =>
              /\ canvas'.screen_w = ld[1].w
              /\ canvas'.screen_h = ld[1].h
              /\ \A i \in 1..Len(ld[1].customs) :
                     LET r == ld[1].customs[i]
                     IN  r.name \in DOMAIN canvas'.regions /\ canvas'.regions[r.name] = r
              /\ mw'.actions = ld[1].actions
              /\ canvas'.bg_image = None]_vars

----------------------------------------------------------------------------
(* Claims about panning (SpecPan) *)

(* The fields of the canvas that make up a pan session: the panning flag,   *)
(* the pan offset and the pointer position the next delta is taken from.    *)
PanFields == {"panning", "pan_last", "pan_offset_x", "pan_offset_y"}

(* Everything but the pan session is as it was. *)
OnlyPanChanged ==
    /\ \A f \in DOMAIN canvas \ PanFields : canvas'[f] = canvas[f]
    /\ mw' = mw

(* C20: in every mode, a press of the secondary button starts a pan and     *)
(* changes nothing else; a pointer move while it is held adds the pointer's *)
(* delta to the pan offset and changes nothing else, no region or snapshot  *)
(* preview included; its release ends the pan and changes nothing else.     *)
(* Mode flags, drag origins and previews, swipe points, region mapping,     *)
(* selection and action sequence stay as they were.                         *)
C20_PanTouchesOnlyPan ==
    [][\A pos \in PointerPtsPan :
          /\ (ev'.op = "mousePressEvent" /\ MousePress("right", pos)) =>
                 /\ OnlyPanChanged
                 /\ canvas'.panning
                 /\ canvas'.pan_offset_x = canvas.pan_offset_x
                 /\ canvas'.pan_offset_y = canvas.pan_offset_y
          /\ (ev'.op = "mouseMoveEvent" /\ canvas.panning /\ MouseMove(pos)) =>
                 /\ OnlyPanChanged
                 /\ canvas'.panning
                 /\ canvas'.pan_offset_x = canvas.pan_offset_x + pos[1] - canvas.pan_last[1]
                 /\ canvas'.pan_offset_y = canvas.pan_offset_y + pos[2] - canvas.pan_last[2]
          /\ \A pr \in PromptsPan :
                 (ev'.op = "mouseReleaseEvent" /\ MouseRelease("right", pos, pr)) =>
                     /\ OnlyPanChanged
                     /\ ~canvas'.panning
                     /\ canvas'.pan_offset_x = canvas.pan_offset_x
                     /\ canvas'.pan_offset_y = canvas.pan_offset_y]_vars

(* The view has been panned during a region drag, and the preview of the    *)
(* drag is still at its origin.                                             *)
C20_Witness ==
    /\ ev.op = "mouseMoveEvent"
    /\ ev.case = "pan"
    /\ canvas.panning
    /\ canvas.pan_offset_x # 0
    /\ canvas.region_creation_mode
    /\ canvas.region_start # None
    /\ canvas.region_preview = canvas.region_start

----------------------------------------------------------------------------
(* Claims about click constraining (SpecMode) *)

(* The point (px, py) lies within the bounds of region r. *)
InsideRegion(r, p) ==
    /\ r.x <= p[1] /\ p[1] <= r.x + r.w
    /\ r.y <= p[2] /\ p[2] <= r.y + r.h

(* C21: with Constrain Clicks on, a region selected and no special mode     *)
(* active, the swipe point that a primary pointer-down sets lies inside the *)
(* bounds of the region selected at the click; in RegionCreate or           *)
(* SnapshotSelect mode the drag origin is the converted click point itself, *)
(* not clamped.                                                             *)
C21_ConstrainedClicks ==
    [][\A pos \in PointerPtsMode :
          (ev'.op = "mousePressEvent" /\ MousePress("left", pos)) =>
              LET p == canvas_to_screen(canvas, pos[1], pos[2])
                  set == IF canvas.swipe_start = None
                         THEN canvas'.swipe_start ELSE canvas'.swipe_end
              IN  /\ (Idle(canvas) /\ canvas.snap_constrain_clicks
                        /\ canvas.selected_region # None) =>
                         /\ set # None
                         /\ InsideRegion(canvas.selected_region[1], set)
                  /\ (Idle(canvas) /\ ~canvas.snap_constrain_clicks) => set = p
                  /\ (canvas.snap_mode /\ ~canvas.color_pick_mode) =>
                         canvas'.snap_start = p
                  /\ (canvas.region_creation_mode /\ ~canvas.snap_mode
                        /\ ~canvas.color_pick_mode) =>
                         canvas'.region_start = p]_vars

(* A constrained click outside the selected region has set the swipe start  *)
(* on the region's edge, and a drag in RegionCreate mode has started at a   *)
(* point outside the selected region.                                       *)
C21_Witness ==
    /\ ev.op = "mousePressEvent"
    /\ ev.case = "region_start"
    /\ canvas.snap_constrain_clicks
    /\ canvas.selected_region # None
    /\ canvas.swipe_start = <<0, 121>>
    /\ canvas.region_start = <<0, 0>>

----------------------------------------------------------------------------
(* Claims about the eyedropper (SpecPick) *)

(* C22: a primary pointer-down in Eyedropper mode leaves the mode          *)
(* inactive and changes nothing else of the canvas (no swipe point, no drag *)
(* origin); with a background loaded the picked colour becomes the colour   *)
(* of the pixel at the click point clamped into the image, [0, imgW-1] x    *)
(* [0, imgH-1]; with none loaded "No background image loaded!" is reported  *)
(* and the picked colour stays as it was.                                   *)
C22_EyedropperClick ==
    [][\A pos \in PointerPtsPick :
          (ev'.op = "mousePressEvent" /\ canvas.color_pick_mode
             /\ MousePress("left", pos)) =>
              /\ canvas' = [canvas EXCEPT !.color_pick_mode = FALSE]
              /\ IF canvas.bg_image = None
                 THEN /\ mw' = mw
                      /\ ev'.msg = "No background image loaded!"
                 ELSE LET p == canvas_to_screen(canvas, pos[1], pos[2])
                          px == IF p[1] < 0 THEN 0
                                ELSE IF p[1] > canvas.bg_image[1] - 1
                                THEN canvas.bg_image[1] - 1 ELSE p[1]
                          py == IF p[2] < 0 THEN 0
                                ELSE IF p[2] > canvas.bg_image[2] - 1
                                THEN canvas.bg_image[2] - 1 ELSE p[2]
                      IN  /\ mw'.picked_color = PixelColor(px, py)
                          /\ mw'.clipboard = PixelColor(px, py)
                          /\ mw' = [mw EXCEPT !.picked_color = mw'.picked_color,
                                              !.clipboard = mw'.clipboard]
                          /\ ev'.msg = ""]_vars

(* With a 100 x 100 background and the view panned, a click that converts   *)
(* to a point beyond the image has picked the colour of its last pixel      *)
(* while a region drag was armed and a swipe start was set.                 *)
C22_Witness ==
    /\ ev.op = "mousePressEvent"
    /\ ev.case = "eyedropper"
    /\ canvas.bg_image = <<100, 100>>
    /\ canvas.pan_offset_x # 0
    /\ canvas.region_creation_mode
    /\ canvas.swipe_start # None
    /\ mw.picked_color = PixelColor(99, 99)

----------------------------------------------------------------------------
(* Claims about what the undo stack records (SpecAct) *)

(* C23: the undo stack changes only when delete_action pushes one entry     *)
(* (the deleted row and action) or undo_action pops one; add_action and     *)
(* move_action leave it as it is, and an undo only puts an action back: the *)
(* sequence before it is the sequence after it less one action, so no add   *)
(* and no move is ever reversed.                                            *)
C23_UndoStackOnlyDeleteAndUndo ==
    [][/\ (mw'.undo_stack # mw.undo_stack) =>
              \/ /\ ev'.op = "delete_action"
                 /\ mw.act_list.row >= 0
                 /\ mw'.undo_stack =
                        Append(mw.undo_stack,
                               <<mw.act_list.row, mw.actions[mw.act_list.row + 1]>>)
              \/ /\ ev'.op = "undo_action"
                 /\ mw.undo_stack # <<>>
                 /\ mw'.undo_stack = SubSeq(mw.undo_stack, 1, Len(mw.undo_stack) - 1)
       /\ (ev'.op \in {"add_action", "move_action"}) => mw'.undo_stack = mw.undo_stack
       /\ (ev'.op = "undo_action") =>
              IF mw.undo_stack = <<>>
              THEN mw'.actions = mw.actions
              ELSE /\ Len(mw'.actions) = Len(mw.actions) + 1
                   /\ \E k \in 0..Len(mw.actions) :
                          /\ mw.actions = ListPop(mw'.actions, k)
                          /\ mw'.actions[k + 1] = mw.undo_stack[Len(mw.undo_stack)][2]
      ]_vars

(* An action has been moved while a deletion was on the undo stack, and the *)
(* stack still holds just that deletion.                                    *)
C23_Witness ==
    /\ ev.op = "move_action"
    /\ ev.case = "swapped"
    /\ Len(mw.undo_stack) = 1
    /\ Len(mw.actions) = 2

----------------------------------------------------------------------------
(* Claims about the preset regions (SpecPreset) *)

(* q is the floor of a / b, for b > 0 *)
IsFloor(q, a, b) == b * q <= a /\ a < b * (q + 1)

(* r is the rectangle (x, y, w, h) *)
IsRect(r, x, y, w, h) == r.x = x /\ r.y = y /\ r.w = w /\ r.h = h

(* Screen sizes below the spin boxes' range *)
SmallSizes == {1, 2, 13, 14, 27, 99}

(* R is the mapping of the ten presets for the screen size (W, H): each     *)
(* region carries its name, is non-custom and has the rectangle of the      *)
(* floored formulas.                                                        *)
PresetsByFormula(W, H, R) ==
    /\ DOMAIN R = {"Upper_Half", "Lower_Half", "Upper_Left", "Upper_Right",
                   "Lower_Left", "Lower_Right", "Home_Screen_Region",
                   "Lower_Most_Half", "Agnes_Region", "Main"}
    /\ Cardinality(DOMAIN R) = 10
    /\ \A n \in DOMAIN R : R[n].name = n /\ ~R[n].custom
    /\ LET hw == R["Upper_Left"].w
           hh == R["Upper_Half"].h
           h14 == R["Lower_Most_Half"].h
           a8 == R["Agnes_Region"].y
           a30 == R["Agnes_Region"].w
           a42 == R["Agnes_Region"].h
       IN  /\ IsFloor(hw, W, 2) /\ IsFloor(hh, H, 2) /\ IsFloor(h14, H, 14)
           /\ IsFloor(a8, 8 * H, 100) /\ IsFloor(a30, 30 * W, 100)
           /\ IsFloor(a42, 42 * H, 100)
           /\ IsRect(R["Upper_Half"], 0, 0, W, hh)
           /\ IsRect(R["Lower_Half"], 0, hh, W, hh)
           /\ IsRect(R["Upper_Left"], 0, 0, hw, hh)
           /\ IsRect(R["Upper_Right"], hw, 0, hw, hh)
           /\ IsRect(R["Lower_Left"], 0, hh, hw, hh)
           /\ IsRect(R["Lower_Right"], hw, hh, hw, hh)
           /\ IsRect(R["Home_Screen_Region"], hw - 20, 0, 40, 40)
           /\ IsRect(R["Lower_Most_Half"], 0, H - h14, W, h14)
           /\ IsRect(R["Agnes_Region"], 0, a8, a30, a42)
    /\ [R["Main"] EXCEPT !.name = "Upper_Half"] = R["Upper_Half"]
    /\ (W = 720 /\ H = 1520) =>
           /\ IsRect(R["Upper_Half"], 0, 0, 720, 760)
           /\ IsRect(R["Agnes_Region"], 0, 121, 216, 638)

(* C24: for the screen size (W, H) the presets are the same ten names, each *)
(* region carrying its name and marked non-custom, with the rectangles of   *)
(* the floored formulas over (W, H), Main being equal to Upper_Half; at     *)
(* 720 x 1520 Upper_Half is (0, 0, 720, 760) and Agnes_Region is            *)
(* (0, 121, 216, 638).                                                      *)
C24_PresetFormulas ==
    /\ canvas.regions = compute_regions(canvas.screen_w, canvas.screen_h)
    /\ PresetsByFormula(canvas.screen_w, canvas.screen_h, canvas.regions)
    /\ \A W \in SmallSizes, H \in SmallSizes :
           PresetsByFormula(W, H, compute_regions(W, H))

(* The presets have been generated for 1439 x 2559, where no division of    *)
(* the formulas is exact.                                                   *)
C24_Witness ==
    /\ ev.op = "apply_resolution"
    /\ canvas.screen_w = 1439 /\ canvas.screen_h = 2559
    /\ IsRect(canvas.regions["Agnes_Region"], 0, 204, 431, 1074)
    /\ IsRect(canvas.regions["Lower_Most_Half"], 0, 2377, 1439, 182)

----------------------------------------------------------------------------
(* Claims about profiles and region sizes (SpecProfile) *)

(* Resolutions at the ends of the spin boxes' range 100..10000 *)
SpinEnds == {100, 101, 9999, 10000}

(* C25: every region of the mapping, whether a preset of the current        *)
(* resolution, a custom region drawn by a drag or a custom region put back  *)
(* by a profile load, has a positive width and a positive height; so have   *)
(* the presets of the smallest and largest resolutions of the spin boxes.   *)
C25_RegionsHaveArea ==
    /\ \A n \in DOMAIN canvas.regions :
           canvas.regions[n].w > 0 /\ canvas.regions[n].h > 0
    /\ \A W \in SpinEnds, H \in SpinEnds :
           \A n \in PresetNames :
               compute_regions(W, H)[n].w > 0 /\ compute_regions(W, H)[n].h > 0

(* At 100 x 100, the smallest resolution, a profile load has put back a     *)
(* custom region that was deleted after the save.                           *)
C25_Witness ==
    /\ ev.op = "load_profile"
    /\ canvas.screen_w = 100 /\ canvas.screen_h = 100
    /\ "AA" \in DOMAIN canvas.regions
    /\ canvas.regions["AA"].custom

(* The session after save_profile and a load_profile of the file just       *)
(* written                                                                  *)
SavedAndLoaded ==
    load_profile(canvas, mw, save_profile(canvas, mw),
                 canvas.bg_image_path # None, canvas.bg_image)

(* The names of the custom regions a profile holds *)
ProfileNames(data) == {data.customs[i].name : i \in 1..Len(data.customs)}

(* C30: saving the session and loading the saved profile at once leaves the *)
(* resolution, the whole region mapping and the action sequence as they     *)
(* were before the save; and every load of a saved profile makes the action *)
(* sequence the profile's, while the custom regions of the session that the *)
(* profile does not name stay in the mapping as they were.                  *)
C30_ProfileRoundTrip ==
    /\ [](/\ SavedAndLoaded[1].screen_w = canvas.screen_w
          /\ SavedAndLoaded[1].screen_h = canvas.screen_h
          /\ SavedAndLoaded[1].regions = canvas.regions
          /\ SavedAndLoaded[2].actions = mw.actions)
    /\ [][(ev'.op = "load_profile" /\ LoadSaved) =>
              LET data == mw.profile_file[1]
              IN  /\ mw'.actions = data.actions
                  /\ canvas'.screen_w = data.w /\ canvas'.screen_h = data.h
                  /\ \A n \in DOMAIN canvas.regions :
                         (canvas.regions[n].custom /\ n \notin ProfileNames(data)) =>
                             /\ n \in DOMAIN canvas'.regions
                             /\ canvas'.regions[n] = canvas.regions[n]
                  /\ \A n \in ProfileNames(data) :
                         /\ n \in DOMAIN canvas'.regions
                         /\ canvas'.regions[n].custom]_vars

(* A profile saved at 100 x 100 with one action and no custom region has    *)
(* been loaded into a session with the custom region AA, which is still     *)
(* there.                                                                   *)
C30_Witness ==
    /\ ev.op = "load_profile"
    /\ mw.profile_file # None
    /\ mw.profile_file[1].customs = <<>>
    /\ mw.profile_file[1].w = 100
    /\ Len(mw.profile_file[1].actions) = 1
    /\ mw.actions = mw.profile_file[1].actions
    /\ canvas.screen_w = 100
    /\ "AA" \in DOMAIN canvas.regions

----------------------------------------------------------------------------
(* Claims about the view transform (SpecZoom) *)

(* C26, as claimed: after a wheel zoom at the widget position p,            *)
(* canvas_to_screen gives for p the same screen point as before the zoom.   *)
C26_ZoomAnchoredAtCursor ==
    [][\A delta \in {-120, 120}, pos \in PointerPtsZoom :
          (ev'.op = "wheelEvent" /\ WheelEvent(delta, pos)) =>
              canvas_to_screen(canvas', pos[1], pos[2])
                  = canvas_to_screen(canvas, pos[1], pos[2])]_vars

(* Screen points of the round trip, all within the 720 x 1520 screen *)
ScreenPtsRound == {<<0, 0>>, <<2, 3>>, <<19, 19>>, <<201, 401>>, <<719, 1519>>}

InBounds(c, s) == 0 <= s[1] /\ s[1] < c.screen_w /\ 0 <= s[2] /\ s[2] < c.screen_h

(* The screen point s drawn on the canvas and converted back *)
RoundTrip(c, s) ==
    LET p == screen_to_canvas(c, s[1], s[2])
    IN  canvas_to_screen(c, p[1], p[2])

(* The least integer not below a / b, for a >= 0 and b > 0 *)
CeilDiv(a, b) == (a + b - 1) \div b

(* C27, as claimed: for a non-zero effective scale, an in-bounds screen     *)
(* point mapped to the canvas as paintEvent draws it and back through       *)
(* canvas_to_screen comes out within one pixel of itself on each axis.      *)
C27_RoundTripWithinOnePixel ==
    \A s \in ScreenPtsRound :
        (InBounds(canvas, s) /\ actual_scale(canvas)[1] # 0) =>
            /\ Abs(RoundTrip(canvas, s)[1] - s[1]) <= 1
            /\ Abs(RoundTrip(canvas, s)[2] - s[2]) <= 1

(* C27, amended: the round trip never overshoots and falls short of the     *)
(* point by at most ceil(1 / scale) pixels on each axis, which is one pixel *)
(* where the effective scale is at least 1.                                 *)
C27_RoundTripWithinScaleStep ==
    \A s \in ScreenPtsRound :
        (InBounds(canvas, s) /\ actual_scale(canvas)[1] # 0) =>
            LET scale == actual_scale(canvas)
                b == RoundTrip(canvas, s)
                step == CeilDiv(scale[2], scale[1])
            IN  /\ 0 <= s[1] - b[1] /\ s[1] - b[1] <= step
                /\ 0 <= s[2] - b[2] /\ s[2] - b[2] <= step
                /\ (scale[1] >= scale[2]) => (s[1] - b[1] <= 1 /\ s[2] - b[2] <= 1)

(* At zoom 0.1 of a panned view (effective scale 1/20) the screen point     *)
(* (19, 19) is drawn on the pixel of (0, 0) and converts back to (0, 0).    *)
C27_Witness ==
    /\ canvas.zoom_factor = <<1, 10>>
    /\ canvas.pan_offset_x # 0
    /\ RoundTrip(canvas, <<19, 19>>) = <<0, 0>>
    /\ RoundTrip(canvas, <<719, 1519>>) = <<700, 1500>>

(* Percentages given to set_zoom_percent: inside and outside 10..1000 *)
PercentsAny == {-500, -1, 0, 9, 10, 11, 100, 999, 1000, 1001, 5000}

(* The zoom factor of the view c lies in [0.1, 10.0] and the effective      *)
(* scale is not zero.                                                       *)
ZoomInRange(c) ==
    /\ c.zoom_factor[2] > 0
    /\ ~RatLess(c.zoom_factor, <<1, 10>>)
    /\ ~RatLess(<<10, 1>>, c.zoom_factor)
    /\ actual_scale(c)[1] # 0

(* C28: after any sequence of Fit, set_zoom_percent and wheel events the    *)
(* zoom factor lies in [0.1, 10.0] and the effective scale is not zero;     *)
(* set_zoom_percent with any integer percentage keeps the zoom in that      *)
(* range and leaves the pan offset as it is, and so does a wheel step from  *)
(* either end of the range keep the zoom in it.                             *)
C28_ZoomBounded ==
    /\ ZoomInRange(canvas)
    /\ \A pct \in PercentsAny :
           LET c1 == set_zoom_percent(canvas, pct)
           IN  /\ ZoomInRange(c1)
               /\ c1.pan_offset_x = canvas.pan_offset_x
               /\ c1.pan_offset_y = canvas.pan_offset_y
               /\ \A delta \in {-120, 120}, pos \in PointerPtsZoom :
                      ZoomInRange(wheelEvent(c1, mw, delta, pos)[1])

(* The slider has put the zoom at the lower end of the range and the wheel  *)
(* has been turned down there at least twice; the view is panned.           *)
C28_Witness ==
    /\ ev.op = "wheelEvent"
    /\ ev.case = "out"
    /\ ev.wheels >= 2
    /\ canvas.zoom_factor = <<1, 10>>
    /\ mw.zoom_slider = 10
    /\ canvas.pan_offset_x # 0

----------------------------------------------------------------------------
(* Claims about finishing a region drag (SpecDrag) *)

(* C29, as claimed: releasing a RegionCreate drag of at least 5 x 5 pixels  *)
(* from the origin o at the point r, with a non-empty name that is not in   *)
(* the mapping confirmed, adds exactly the custom region (min(o.x, r.x),    *)
(* min(o.y, r.y), |r.x - o.x|, |r.y - o.y|) under that name and selects it, *)
(* every other entry staying as it was; with the prompt dismissed or the    *)
(* name empty the mapping is unchanged; in each of these outcomes           *)
(* RegionCreate mode is inactive afterwards and the drag's origin and       *)
(* preview are unset.                                                       *)
C29_RegionDragFinished ==
    [][\A pos \in PointerPtsDrag, pr \in PromptsDrag :
          (/\ ev'.op = "mouseReleaseEvent"
           /\ canvas.region_creation_mode /\ ~canvas.snap_mode
           /\ canvas.region_start # None
           /\ MouseRelease("left", pos, pr)) =>
              LET o == canvas.region_start
                  r == canvas_to_screen(canvas, pos[1], pos[2])
                  w == Abs(r[1] - o[1])
                  h == Abs(r[2] - o[2])
                  reg == RegionRect(pr[2], Min(o[1], r[1]), Min(o[2], r[2]), w, h, TRUE)
              IN  (w >= 5 /\ h >= 5) =>
                      /\ IF pr[1] /\ pr[2] # ""
                         THEN (pr[2] \notin DOMAIN canvas.regions) =>
                                  /\ canvas'.regions = DictSet(canvas.regions, pr[2], reg)
                                  /\ canvas'.selected_region = Some(reg)
                                  /\ mw'.region_box.cur = pr[2]
                         ELSE canvas'.regions = canvas.regions
                      /\ ~canvas'.region_creation_mode
                      /\ canvas'.region_start = None
                      /\ canvas'.region_preview = None]_vars

----------------------------------------------------------------------------
(* C31: in every reachable state each of the ten preset names is a key of   *)
(* the region mapping, and the region under it is the non-custom region     *)
(* compute_regions(screen_w, screen_h) gives for that name.                 *)
C31_PresetsAlwaysThere ==
    \A n \in PresetNames :
        /\ n \in DOMAIN canvas.regions
        /\ canvas.regions[n] = compute_regions(canvas.screen_w, canvas.screen_h)[n]

(* C31: no preset name is ever missing from the region mapping *)
C31_PresetKeysKept == PresetNames \subseteq DOMAIN canvas.regions

----------------------------------------------------------------------------
(* An action whose line in the generated text carries a region argument:    *)
(* the clickimage, exists and if-exists lines of the actions with an image. *)
EmitsRegion(a) == "img" \in DOMAIN a /\ ActionLine(a) # <<>>

(* The text has the region-definition line of the region called reg *)
DefinedIn(text, regions, reg) ==
    /\ reg \in DOMAIN regions
    /\ \E j \in 1..Len(text) : text[j] = RegionLine(regions[reg], reg)

(* C32: every region name that is an argument of an emitted action line has *)
(* a region-definition line in the same generated text.                     *)
C32_NoUndefinedRegion ==
    \A i \in 1..Len(mw.actions) :
        (/\ EmitsRegion(mw.actions[i])
         /\ \E j \in 1..Len(mw.lua_out) : mw.lua_out[j] = ActionLine(mw.actions[i])[1])
        => DefinedIn(mw.lua_out, canvas.regions, Get(mw.actions[i], "region", ""))

----------------------------------------------------------------------------
(* C33: in every reachable state the background image and the background    *)
(* path are both set or both unset, and a profile saved in a state with no  *)
(* background image records no background path.                             *)
C33_BgHandleAndPathTogether ==
    /\ (canvas.bg_image = None) <=> (canvas.bg_image_path = None)
    /\ canvas.bg_image = None => save_profile(canvas, mw).bg = None
    /\ (ev.op = "save_profile" /\ ev.case = "saved" /\ canvas.bg_image = None)
           => mw.profile_file[1].bg = None

(* C33: a profile saved in a session without a background image has no      *)
(* background path                                                          *)
C33_SavedWithoutBg ==
    (ev.op = "save_profile" /\ ev.case = "saved" /\ canvas.bg_image = None)
        => mw.profile_file[1].bg = None

----------------------------------------------------------------------------
(* The custom regions of a mapping, and the names it holds without the      *)
(* custom flag                                                              *)
Customs(regions) == {regions[n] : n \in {k \in DOMAIN regions : regions[k].custom}}

NonCustomNames(regions) == {n \in DOMAIN regions : ~regions[n].custom}

(* C34: Reset All sets the resolution to 720 x 1520, regenerates the        *)
(* presets, removes the background image and empties the action sequence,   *)
(* and leaves the custom regions, the swipe points and the undo stack as    *)
(* they were; an undo issued straight after Reset All puts the action       *)
(* deleted last into the emptied sequence.                                  *)
C34_ResetAllFrame ==
    /\ [][ev'.op = "reset_app" =>
              /\ canvas'.screen_w = DEFAULT_W /\ canvas'.screen_h = DEFAULT_H
              /\ NonCustomNames(canvas'.regions) = PresetNames
              /\ \A n \in PresetNames :
                     canvas'.regions[n] = compute_regions(DEFAULT_W, DEFAULT_H)[n]
              /\ canvas'.bg_image = None
              /\ mw'.actions = <<>>
              /\ Customs(canvas'.regions) = Customs(canvas.regions)
              /\ canvas'.swipe_start = canvas.swipe_start
              /\ canvas'.swipe_end = canvas.swipe_end
              /\ <<mw'.sx, mw'.sy, mw'.ex, mw'.ey>> = <<mw.sx, mw.sy, mw.ex, mw.ey>>
              /\ mw'.undo_stack = mw.undo_stack]_vars
    /\ [][(ev.op = "reset_app" /\ ev'.op = "undo_action" /\ mw.undo_stack # <<>>) =>
              /\ mw.actions = <<>>
              /\ mw'.actions = <<mw.undo_stack[Len(mw.undo_stack)][2]>>
              /\ mw'.undo_stack = SubSeq(mw.undo_stack, 1, Len(mw.undo_stack) - 1)]_vars

(* Reset All has just been pressed in a session that had a custom region, a *)
(* swipe start point, a background and a deleted action: the action list is *)
(* empty, the background is gone, and the region, the point and the undo    *)
(* stack are still there.                                                   *)
C34_Witness ==
    /\ ev.op = "reset_app"
    /\ mw.actions = <<>>
    /\ mw.undo_stack # <<>>
    /\ canvas.bg_image = None
    /\ canvas.bg_image_path # None
    /\ canvas.swipe_start # None
    /\ "AA" \in DOMAIN canvas.regions /\ canvas.regions["AA"].custom

(* No step is an undo straight after Reset All that puts a deleted action   *)
(* back as the only action of the sequence.  The model has such steps, so   *)
(* this formula is violated under SpecReset: the second part of C34 is not  *)
(* vacuous.                                                                 *)
C34_NoUndoAfterReset ==
    [][~(/\ ev.op = "reset_app" /\ ev'.op = "undo_action" /\ ev'.case = "restored"
         /\ Len(mw'.actions) = 1 /\ mw.actions = <<>>)]_vars

----------------------------------------------------------------------------
(* Every event of the model *)

Next ==
    \/ NextAct \/ NextMode \/ NextReg \/ NextDrag \/ NextGen \/ NextTypes
    \/ NextSwipe \/ NextLoad \/ NextPan \/ NextPick \/ NextPreset \/ NextProfile \/ NextZoom
    \/ NextShadow \/ NextRef \/ NextBg \/ NextReset

Spec == Init /\ [][Next]_vars

=============================================================================
